---- MODULE Spec2Model ----
(***************************************************************************)
(* State-machine model of the intrusion detection / prevention core of     *)
(* autocan-guard: signer, verifier, trust engine, IPS policy engine and    *)
(* the listener's per-frame pipeline.                                      *)
(*                                                                         *)
(* Numbers.  Scores and trust are Python floats in [0,1]; they are kept    *)
(* here as integers in thousandths (ONE = 1.000).  Wall-clock times are    *)
(* integers in milliseconds.  Speeds, angles and brake pressures are       *)
(* integers in hundredths of their unit; the frame codec carries tenths.   *)
(***************************************************************************)
EXTENDS Integers, Sequences, FiniteSets, TLC

VARIABLES
    \* ---- TrustEngine (src/trust_engine.py)
    trust_score,        \* self.trust_score, thousandths
    ml_enabled,         \* self.ml_enabled
    trustRaw,           \* history: trust_score + trust_delta of the last update, before the clamp
    trustCall,          \* history: the update_trust call just made, when the last operation on the engine was one
    \* ---- wall clock, int(time.time() * 1000)
    now,
    \* ---- MessageVerifier (src/security/verifier.py)
    last_sequences,     \* self.last_sequences: device -> last sequence, 0 by default
    message_history,    \* self.message_history: device -> list of accepted timestamps
    call,               \* history: the last verify_message call and its result
    lastAccepted,       \* history: device -> sequence of the last envelope accepted (0: none yet)
    marked,             \* history: an envelope the verifier accepted earlier
    replay,             \* history: the last verify_message call on the marked envelope after it was marked
    \* ---- MessageSigner, one per producing device (src/security/signer.py)
    sequence,           \* self.sequence
    sequence_file,      \* the content of /tmp/{device_id}_sequence.txt, NoFile when absent
    outbox,             \* device -> the envelopes signed and not yet handed to the verifier, oldest first
    signed,             \* history: device -> number of sign_message calls so far
    foreign,            \* history: device -> the verifier holds or awaits envelopes of an earlier signer instance
    delivery,           \* history: the last in-order hand-over of a signed envelope and its result
    \* ---- IPSPolicyEngine (src/ips_engine.py), self.state
    ips_enabled,        \* state.enabled
    ips_mode,           \* state.mode
    last_safe_speed,    \* state.last_safe_speed, hundredths of km/h
    last_safe_steering, \* state.last_safe_steering, hundredths of a degree
    recovery_timer,     \* state.recovery_timer, ms; 0 when not running
    runStart,           \* history: clock of the first call of the current unbroken run of calls with trust >= 0.8; 0: no run
    ipsCall,            \* history: the last update_policy call and what it left
    sanCall,            \* history: the sanitize call just made, when the last operation on the engine was one
    \* ---- the exchange and the bus (src/can_generator.py)
    secure_messages,    \* the list in /tmp/secure_messages.pkl, oldest first
    bus,                \* the list in MESSAGE_FILE, oldest first
    busIo,              \* the send and the recv call under way: the list each has loaded from MESSAGE_FILE; history: the frames recv returned
    reseed,             \* history: the hand-over of the first envelope a signer issued after starting without its sequence file
    brakeThreads,       \* vehicle_engine: where each continuous_brake thread started so far is
    listenLoop,         \* _listen_loop and stop(): the running flag, where the thread and the caller of stop() are, when the recv under way started, when stop() was called
    physCall,           \* history: the last get_physics_score call and the one before it
    codec,              \* history: a value on its way through the producer's encoding and the listener's decoding
    \* ---- CANListener (src/can_listener.py) and the objects it owns
    message_count,
    verified_messages,
    rejected_messages,
    message_log,
    training_mode,
    training_samples,
    training_features,
    current_speed,
    current_steering,
    current_brake,
    fe_history,         \* feature_extractor.message_history: signal -> ring of pairs
    physics,            \* physics_validator: histories and last values
    is_trained,         \* anomaly_detector.is_trained
    vehicle,            \* vehicle_engine: state and flags
    listening,          \* the listener thread is in _listen_loop
    sender_windows,     \* contextual_validator.sender_windows: sender -> window of samples
    frames,             \* history: frames put on the bus outside the steady traffic
    benign,             \* history: turns of steady traffic
    ticks,              \* history: clock steps since the start
    frameRec            \* history: what the listener did with the last frame it took

trustVars == <<trust_score, ml_enabled, trustRaw, trustCall>>
verifierVars == <<last_sequences, message_history, call, lastAccepted, marked, replay>>
signerVars == <<sequence, sequence_file, outbox, signed, foreign, delivery>>
ipsVars == <<ips_enabled, ips_mode, last_safe_speed, last_safe_steering, recovery_timer,
             runStart, ipsCall, sanCall>>
listenerOwn == <<secure_messages, message_count, verified_messages, rejected_messages,
                 message_log, training_mode, training_samples, training_features,
                 current_speed, current_steering, current_brake, fe_history, physics,
                 is_trained, vehicle, listening, sender_windows, codec, busIo, reseed,
                 physCall, listenLoop, brakeThreads>>
listenerVars == <<listenerOwn, bus, frames, benign, ticks, frameRec>>

vars == <<trust_score, ml_enabled, trustRaw, trustCall, now, last_sequences, message_history,
          call, lastAccepted, marked, replay,
          sequence, sequence_file, outbox, signed, foreign, delivery,
          ips_enabled, ips_mode, last_safe_speed, last_safe_steering, recovery_timer,
          runStart, ipsCall, sanCall,
          secure_messages, bus, message_count, verified_messages, rejected_messages,
          message_log, training_mode, training_samples, training_features,
          current_speed, current_steering, current_brake, fe_history, physics,
          is_trained, vehicle, listening, sender_windows, frames, benign, ticks, frameRec,
          codec, busIo,
          reseed, physCall, listenLoop, brakeThreads>>

\* 1.0 in thousandths
ONE == 1000

Max(a, b) == IF a >= b THEN a ELSE b
Min(a, b) == IF a <= b THEN a ELSE b

(***************************************************************************)
(* TrustEngine                                                             *)
(***************************************************************************)
ALPHA == 100            \* alpha = 0.1
BETA == 200             \* beta = 0.2
GAMMA == 50             \* gamma = 0.05
RECOVERY_RATE == 10     \* recovery_rate = 0.01
MIN_TRUST == 0
MAX_TRUST == 1000

\* the scores a caller may pass to update_trust, each in [0, 1]
ScoreInputs == {0, 50, 100, 500, 800, 1000}

\* an effective anomaly score that does not look at the toggle
EffectiveAnomalyToggleIgnored(ml, anomaly) == anomaly

\* effective_anomaly_score = anomaly_score if self.ml_enabled else 0.0
EffectiveAnomaly(ml, anomaly) == IF ml THEN anomaly ELSE 0

\* a trust_delta without the recovery term
TrustDeltaNoRecovery(eff, auth, temporal) ==
    0 - (ALPHA * eff + BETA * (ONE - auth) + GAMMA * (ONE - temporal)) \div ONE

\* trust_delta, including the recovery term
TrustDelta(eff, auth, temporal) ==
    LET decay == (ALPHA * eff + BETA * (ONE - auth) + GAMMA * (ONE - temporal)) \div ONE
    IN  (IF eff < 100 THEN RECOVERY_RATE ELSE 0) - decay

\* a clamp that forgets the lower bound
ClampTrustNoFloor(x) == Min(MAX_TRUST, x)

\* max(self.min_trust, min(self.max_trust, self.trust_score))
ClampTrust(x) == Max(MIN_TRUST, Min(MAX_TRUST, x))

\* the trust score update_trust leaves behind
TrustAfter(t, ml, anomaly, auth, temporal) ==
    ClampTrust(t + TrustDelta(EffectiveAnomaly(ml, anomaly), auth, temporal))

UpdateTrust(anomaly, auth, temporal) ==
    /\ trustRaw' = trust_score + TrustDelta(EffectiveAnomaly(ml_enabled, anomaly), auth, temporal)
    /\ trust_score' = TrustAfter(trust_score, ml_enabled, anomaly, auth, temporal)
    /\ UNCHANGED ml_enabled

ResetTrust ==
    /\ trust_score' = MAX_TRUST
    /\ UNCHANGED <<ml_enabled, trustRaw>>

SetMlEnabled(enabled) ==
    /\ ml_enabled' = enabled
    /\ UNCHANGED <<trust_score, trustRaw>>

\* no update_trust call to report
NoTrustCall == [seen |-> FALSE, before |-> 0, ml |-> FALSE, anomaly |-> 0, auth |-> 0,
                temporal |-> 0]

\* what an update_trust call is given, and the engine it finds
TrustCall(anomaly, auth, temporal) ==
    [seen |-> TRUE, before |-> trust_score, ml |-> ml_enabled, anomaly |-> anomaly,
     auth |-> auth, temporal |-> temporal]

InitTrustEngine ==
    /\ trust_score = 1000
    /\ ml_enabled = TRUE
    /\ trustRaw = 1000
    /\ trustCall = NoTrustCall


(***************************************************************************)
(* Wall clock                                                              *)
(***************************************************************************)
\* the clock value at which the model starts, in ms
NowStart == 100000
\* how far the clock may run past NowStart
MaxClock == 5001
\* the amounts by which the clock advances between two calls
TickSteps == {5000, 5001}

Tick(step) ==
    /\ now + step <= NowStart + MaxClock
    /\ now' = now + step

Abs(x) == IF x < 0 THEN -x ELSE x

(***************************************************************************)
(* Keys (src/security/keys.py)                                             *)
(***************************************************************************)
NoKey == "None"

DEVICE_KEYS ==
    [d \in {"vehicleA-steering-ecu", "vehicleA-speed-ecu", "vehicleA-brake-ecu",
            "vehicleA-ui-controller", "vehicleA-v2v", "vehicleB-v2v", "attacker-unknown"} |->
        CASE d = "vehicleA-steering-ecu" -> "steering_key_v1_secret_2024"
          [] d = "vehicleA-speed-ecu" -> "speed_key_v1_secret_2024"
          [] d = "vehicleA-brake-ecu" -> "brake_key_v1_secret_2024"
          [] d = "vehicleA-ui-controller" -> "ui_key_v1_secret_2024"
          [] d = "vehicleA-v2v" -> "v2v_key_v1_secret_2024"
          [] d = "vehicleB-v2v" -> "v2v_key_v1_secret_2024"
          [] d = "attacker-unknown" -> "fake_key_attempt_2024"]

CURRENT_KEY_VERSION == 1
TIMESTAMP_WINDOW_MS == 5000

get_device_key(device_id) ==
    IF device_id \in DOMAIN DEVICE_KEYS THEN DEVICE_KEYS[device_id] ELSE NoKey

(***************************************************************************)
(* Payloads.  A frame's data is 8 bytes; the envelope carries it           *)
(* hex-encoded (bytes.hex()), here a sequence of 16 hex digits 0..15.      *)
(***************************************************************************)
\* bytes.hex()
Hex(bytes) ==
    [i \in 1..(2 * Len(bytes)) |->
        IF i % 2 = 1 THEN bytes[(i + 1) \div 2] \div 16 ELSE bytes[i \div 2] % 16]

\* bytes.fromhex()
FromHex(digits) ==
    [i \in 1..(Len(digits) \div 2) |-> 16 * digits[2 * i - 1] + digits[2 * i]]

\* val.to_bytes(2, 'big') + b'\x00' * 6
FrameData(val) == <<val \div 256, val % 256, 0, 0, 0, 0, 0, 0>>

(***************************************************************************)
(* HMAC.  hmac.new(key, message_data, sha256).hexdigest() is modelled as   *)
(* an injective function of the key and the signed text: the pair itself.  *)
(* The signed text f"{device_id}:{timestamp}:{sequence}:{can_id}:{payload}"*)
(* is the tuple of its five fields (no device id, integer or hex string    *)
(* holds a colon, so the text determines the fields).                      *)
(***************************************************************************)
\* a signed text that leaves the payload out
MessageDataNoPayload(device_id, timestamp, seq, can_id, payload) ==
    <<device_id, timestamp, seq, can_id>>

MessageData(device_id, timestamp, seq, can_id, payload) ==
    <<device_id, timestamp, seq, can_id, payload>>

Hmac(key, message_data) == <<key, message_data>>

\* the signature a holder of `key` computes over the fields of m
SignatureOf(key, m) ==
    Hmac(key, MessageData(m.device_id, m.timestamp, m.sequence, m.can_id, m.payload))

(***************************************************************************)
(* MessageVerifier                                                         *)
(***************************************************************************)
SEQUENCE_GAP == 100

\* not all([device_id, timestamp, sequence, can_id, payload, signature]):
\* a field that is absent, 0 or empty is falsy
MissingFields(m) ==
    \/ m.device_id = ""
    \/ m.timestamp = 0
    \/ m.sequence = 0
    \/ m.can_id = 0
    \/ Len(m.payload) = 0
    \/ Len(m.signature) = 0

\* a window test that forgets abs(): timestamps ahead of the clock pass
IsStaleOneSided(current_time, timestamp) == current_time - timestamp > TIMESTAMP_WINDOW_MS

\* abs(current_time - timestamp) > TIMESTAMP_WINDOW_MS
IsStale(current_time, timestamp) == Abs(current_time - timestamp) > TIMESTAMP_WINDOW_MS

\* sequence <= last_seq and sequence < last_seq - 100: the restart branch
IsRestart(seq, last_seq) == seq <= last_seq /\ seq < last_seq - SEQUENCE_GAP

\* a replay test that lets an equal sequence through
IsSequenceReplayStrict(seq, last_seq) ==
    seq < last_seq /\ ~(seq < last_seq - SEQUENCE_GAP)

\* a replay test without the restart branch
IsSequenceReplayNoRestart(seq, last_seq) == seq <= last_seq

\* sequence <= last_seq and not the restart branch: "Sequence replay"
IsSequenceReplay(seq, last_seq) ==
    seq <= last_seq /\ ~(seq < last_seq - SEQUENCE_GAP)

\* [ts for ts in history if ts > cutoff]
CleanHistory(history, cutoff) == SelectSeq(history, LAMBDA ts : ts > cutoff)

Rejected(reason, ls, mh) ==
    [ok |-> FALSE, reason |-> reason, last_sequences |-> ls, message_history |-> mh]

\* a verifier that keeps one sequence counter for all devices
VerifyMessageOneCounter(ls, mh, current_time, m) ==
    IF MissingFields(m) THEN Rejected("Missing required fields", ls, mh)
    ELSE IF get_device_key(m.device_id) = NoKey THEN Rejected("Unknown device", ls, mh)
    ELSE IF IsStale(current_time, m.timestamp) THEN Rejected("Message too old", ls, mh)
    ELSE IF IsSequenceReplay(m.sequence, ls[m.device_id]) THEN Rejected("Sequence replay", ls, mh)
    ELSE IF m.signature # SignatureOf(get_device_key(m.device_id), m)
    THEN Rejected("Invalid HMAC signature", ls, mh)
    ELSE [ok |-> TRUE, reason |-> "Valid message",
          last_sequences |-> [d \in DOMAIN ls |-> m.sequence],
          message_history |->
              [mh EXCEPT ![m.device_id] = CleanHistory(Append(mh[m.device_id], m.timestamp),
                                                       current_time - TIMESTAMP_WINDOW_MS)]]

\* verify_message(secure_msg) at clock current_time with the verifier in state (ls, mh):
\* the result and the state it leaves
VerifyMessage(ls, mh, current_time, m) ==
    IF MissingFields(m) THEN Rejected("Missing required fields", ls, mh)
    ELSE IF get_device_key(m.device_id) = NoKey THEN Rejected("Unknown device", ls, mh)
    ELSE IF IsStale(current_time, m.timestamp) THEN Rejected("Message too old", ls, mh)
    ELSE IF IsSequenceReplay(m.sequence, ls[m.device_id]) THEN Rejected("Sequence replay", ls, mh)
    ELSE
        LET d == m.device_id
            \* line 43 runs before the signature is looked at
            ls1 == IF IsRestart(m.sequence, ls[d]) THEN [ls EXCEPT ![d] = m.sequence] ELSE ls
        IN  IF m.signature # SignatureOf(get_device_key(d), m)
            THEN Rejected("Invalid HMAC signature", ls1, mh)
            ELSE [ok |-> TRUE, reason |-> "Valid message",
                  last_sequences |-> [ls1 EXCEPT ![d] = m.sequence],
                  message_history |->
                      [mh EXCEPT ![d] = CleanHistory(Append(mh[d], m.timestamp),
                                                     current_time - TIMESTAMP_WINDOW_MS)]]

KeyedDevices == DOMAIN DEVICE_KEYS

NoEnvelope == [device_id |-> "", timestamp |-> 0, sequence |-> 0, key_version |-> 0,
               can_id |-> 0, payload |-> <<>>, signature |-> <<>>]

NoCall == [kind |-> "none", ok |-> FALSE, reason |-> "", stale |-> FALSE,
           belowAccepted |-> FALSE, stateKept |-> TRUE]

NoReplay == [seen |-> FALSE, ok |-> FALSE, covered |-> FALSE]

InitVerifier ==
    /\ last_sequences = [d \in KeyedDevices |-> 0]
    /\ message_history = [d \in KeyedDevices |-> <<>>]
    /\ call = NoCall
    /\ lastAccepted = [d \in KeyedDevices |-> 0]
    /\ marked = NoEnvelope
    /\ replay = NoReplay

InitClock == now = NowStart

\* ---- the envelopes handed to verify_message
\* the most timestamps one device's history may hold
MaxHistory == 2

EnvelopeDevices == {"vehicleA-v2v", "vehicleB-v2v"}
UnknownDevice == "ecu-130"
TsInputs == {NowStart, NowStart + 5001}
SeqInputs == {50, 51, 151}
CAN_SPEED == 304
PayloadInputs == {Hex(FrameData(300))}
TamperPayloads == {Hex(FrameData(400))}

SignedFields ==
    [device_id : EnvelopeDevices, timestamp : TsInputs, sequence : SeqInputs,
     can_id : {CAN_SPEED}, payload : PayloadInputs]

WithSignature(f, sig) ==
    [device_id |-> f.device_id, timestamp |-> f.timestamp, sequence |-> f.sequence,
     key_version |-> CURRENT_KEY_VERSION, can_id |-> f.can_id, payload |-> f.payload,
     signature |-> sig]

\* an envelope as its device's signer issues it
Genuine(f) == WithSignature(f, SignatureOf(get_device_key(f.device_id), f))

\* the envelopes obtained from a genuine one by changing one signed field and keeping the signature
TamperedFrom(f) ==
    LET e == Genuine(f)
    IN  {[e EXCEPT !.payload = p] : p \in TamperPayloads}
        \cup {[e EXCEPT !.timestamp = t] : t \in TsInputs \ {f.timestamp}}
        \cup {[e EXCEPT !.sequence = q] : q \in SeqInputs \ {f.sequence}}
        \cup {[e EXCEPT !.device_id = d] : d \in (EnvelopeDevices \cup {UnknownDevice}) \ {f.device_id}}

\* an envelope signed with a key that is not the device's
Forged(f) == WithSignature(f, SignatureOf(DEVICE_KEYS["attacker-unknown"], f))

\* one verify_message call
Verify(m) ==
    LET r == VerifyMessage(last_sequences, message_history, now, m)
    IN  /\ m.device_id \in KeyedDevices => Len(message_history[m.device_id]) < MaxHistory
        /\ last_sequences' = r.last_sequences
        /\ message_history' = r.message_history

\* history: what the call on m did, and the sequence last accepted for each device
RecordCall(m, kind) ==
    LET d == m.device_id
        known == d \in KeyedDevices
        r == VerifyMessage(last_sequences, message_history, now, m)
    IN  /\ call' = [kind |-> kind, ok |-> r.ok, reason |-> r.reason,
                    stale |-> Abs(now - m.timestamp) > 5000,
                    belowAccepted |-> /\ known
                                      /\ lastAccepted[d] # 0
                                      /\ m.sequence <= lastAccepted[d]
                                      /\ lastAccepted[d] - m.sequence <= 100,
                    stateKept |-> r.last_sequences = last_sequences
                                  /\ r.message_history = message_history]
        /\ lastAccepted' = IF r.ok THEN [lastAccepted EXCEPT ![d] = m.sequence] ELSE lastAccepted

\* history: mark an accepted envelope, and record each later call on it; covered says
\* whether the device's recorded sequence was then at or above the envelope's by at most 100
RecordReplay(m) ==
    LET r == VerifyMessage(last_sequences, message_history, now, m)
        last == last_sequences[m.device_id]
    IN  IF marked # NoEnvelope /\ m = marked
        THEN /\ replay' = [seen |-> TRUE, ok |-> r.ok,
                           covered |-> m.sequence <= last /\ last - m.sequence <= 100]
             /\ UNCHANGED marked
        ELSE /\ UNCHANGED replay
             /\ \/ UNCHANGED marked
                \/ r.ok /\ marked = NoEnvelope /\ marked' = m

VerifyGenuine == \E f \in SignedFields : Verify(Genuine(f)) /\ RecordCall(Genuine(f), "genuine")
VerifyTampered ==
    \E f \in SignedFields : \E m \in TamperedFrom(f) : Verify(m) /\ RecordCall(m, "tampered")
VerifyForged == \E f \in SignedFields : Verify(Forged(f)) /\ RecordCall(Forged(f), "forged")

\* the same calls, observed for replays of a marked envelope
ReplayGenuine == \E f \in SignedFields : Verify(Genuine(f)) /\ RecordReplay(Genuine(f))
ReplayTampered ==
    \E f \in SignedFields : \E m \in TamperedFrom(f) : Verify(m) /\ RecordReplay(m)
ReplayForged == \E f \in SignedFields : Verify(Forged(f)) /\ RecordReplay(Forged(f))

(***************************************************************************)
(* MessageSigner                                                           *)
(***************************************************************************)
NoFile == 0

\* the producing devices modelled: each has a signer of its own, with its own counter and file
SignerDevices == {"vehicleA-speed-ecu"}
\* what the sequence file may hold when the model starts: nothing, or the count of an earlier run
FileInputs == {NoFile, 150}
\* the frame ids and data a caller may pass to sign_message
SignCanIds == {0, CAN_SPEED}
SignData == {FrameData(300)}
\* the most sign_message calls per device, and the most envelopes awaiting hand-over
MaxSigned == 3
MaxOutbox == 2

\* a sequence file that open(file, 'w') has emptied and nothing was written to yet
EmptyFile == -1

\* _load_sequence: the file's number, or 1 when there is no file or no number in it
LoadSequence(file) == IF file # NoFile /\ file # EmptyFile THEN file ELSE 1

\* sign_message(can_id, payload) by a signer whose counter is seq, at clock t: the envelope
SignMessage(device_id, seq, t, can_id, data) ==
    WithSignature([device_id |-> device_id, timestamp |-> t, sequence |-> seq + 1,
                   can_id |-> can_id, payload |-> Hex(data)],
                  Hmac(get_device_key(device_id),
                       MessageData(device_id, t, seq + 1, can_id, Hex(data))))

NoDelivery == [seen |-> FALSE, ok |-> FALSE, reason |-> "", inTime |-> FALSE,
               firstHand |-> FALSE]

InitSigner ==
    /\ sequence_file \in [SignerDevices -> FileInputs]
    /\ sequence = [d \in SignerDevices |-> LoadSequence(sequence_file[d])]
    /\ outbox = [d \in SignerDevices |-> <<>>]
    /\ signed = [d \in SignerDevices |-> 0]
    /\ foreign = [d \in SignerDevices |-> FALSE]
    /\ delivery = NoDelivery

\* sign_message: increment, save, stamp, sign; the envelope goes out to the verifier
Sign(d, can_id, data) ==
    /\ signed[d] < MaxSigned
    /\ Len(outbox[d]) < MaxOutbox
    /\ sequence' = [sequence EXCEPT ![d] = sequence[d] + 1]
    /\ sequence_file' = [sequence_file EXCEPT ![d] = sequence[d] + 1]
    /\ outbox' = [outbox EXCEPT ![d] = Append(outbox[d], SignMessage(d, sequence[d], now, can_id, data))]
    /\ signed' = [signed EXCEPT ![d] = signed[d] + 1]
    /\ UNCHANGED <<foreign, delivery>>

\* the sequence file disappears (it lives in /tmp)
RemoveSequenceFile(d) ==
    /\ sequence_file[d] # NoFile
    /\ sequence_file' = [sequence_file EXCEPT ![d] = NoFile]
    /\ UNCHANGED <<sequence, outbox, signed, foreign, delivery>>

\* the producer restarts: MessageSigner(device_id) loads the counter again
SignerRestart(d) ==
    /\ sequence' = [sequence EXCEPT ![d] = LoadSequence(sequence_file[d])]
    /\ foreign' = [foreign EXCEPT ![d] = foreign[d] \/ last_sequences[d] # 0 \/ outbox[d] # <<>>]
    /\ UNCHANGED <<sequence_file, outbox, signed, delivery>>

\* what a process killed inside _save_sequence may leave of the file: the old content
\* (killed before open), no content (killed between open and write), the new number
SaveOutcomes(old_file, new_sequence) == {old_file, EmptyFile, new_sequence}

\* sign_message is called and the process is killed inside _save_sequence, before an
\* envelope is returned; the producer starts again and MessageSigner loads the counter
SignCrashes(d, left) ==
    /\ signed[d] < MaxSigned
    /\ left \in SaveOutcomes(sequence_file[d], sequence[d] + 1)
    /\ sequence_file' = [sequence_file EXCEPT ![d] = left]
    /\ sequence' = [sequence EXCEPT ![d] = LoadSequence(left)]
    /\ signed' = [signed EXCEPT ![d] = signed[d] + 1]
    /\ foreign' = [foreign EXCEPT ![d] = foreign[d] \/ last_sequences[d] # 0 \/ outbox[d] # <<>>]
    /\ UNCHANGED <<outbox, delivery>>

\* the verifier receives the oldest envelope of d that is still under way
Deliver(d) ==
    LET m == Head(outbox[d])
        r == VerifyMessage(last_sequences, message_history, now, m)
    IN  /\ outbox[d] # <<>>
        /\ Verify(m)
        /\ outbox' = [outbox EXCEPT ![d] = Tail(outbox[d])]
        /\ delivery' = [seen |-> TRUE, ok |-> r.ok, reason |-> r.reason,
                        inTime |-> now - m.timestamp <= 5000, firstHand |-> ~foreign[d]]
        /\ UNCHANGED <<sequence, sequence_file, signed, foreign>>

(***************************************************************************)
(* IPSPolicyEngine.  Speeds and angles are in hundredths of km/h and of a  *)
(* degree; state.sustained_anomaly_start is None throughout and is left    *)
(* out.                                                                    *)
(***************************************************************************)
\* the mode update_policy picks for a trust score below 0.8, with the bounds exclusive
ModeForLowTrustExclusive(trust) ==
    IF trust > 700 THEN "SOFT_LIMIT"
    ELSE IF trust > 500 THEN "SAFE_MODE"
    ELSE "CRITICAL"

\* the mode update_policy picks for a trust score below 0.8
ModeForLowTrust(trust) ==
    IF trust >= 700 THEN "SOFT_LIMIT"
    ELSE IF trust >= 500 THEN "SAFE_MODE"
    ELSE "CRITICAL"

\* a recovery that ends after 2.5 s
RecoveryElapsedEarly(current_time, timer) == current_time - timer > 2500

\* current_time - self.state.recovery_timer > 5.0
RecoveryElapsed(current_time, timer) == current_time - timer > 5000

\* update_policy: the mode it leaves
PolicyMode(enabled, mode, timer, trust, current_time) ==
    IF ~enabled THEN mode
    ELSE IF trust < 800 THEN ModeForLowTrust(trust)
    ELSE IF mode # "OFF" /\ timer # 0 /\ RecoveryElapsed(current_time, timer) THEN "OFF"
    ELSE mode

\* an update_policy that starts the recovery timer afresh at every call
PolicyTimerRestarts(enabled, mode, timer, trust, current_time) ==
    IF ~enabled THEN timer
    ELSE IF trust < 800 THEN 0
    ELSE IF mode = "OFF" THEN timer
    ELSE current_time

\* update_policy: the recovery timer it leaves
PolicyTimer(enabled, mode, timer, trust, current_time) ==
    IF ~enabled THEN timer
    ELSE IF trust < 800 THEN 0
    ELSE IF mode = "OFF" THEN timer
    ELSE IF timer = 0 THEN current_time
    ELSE IF RecoveryElapsed(current_time, timer) THEN 0
    ELSE timer

\* one speed limit for every mode
SpeedLimitFlat(mode) == 4000

\* _get_policy_limits()["speed_limit"] and ["steering_limit"] of a mode other than OFF
SpeedLimit(mode) ==
    IF mode = "SOFT_LIMIT" THEN 4000 ELSE IF mode = "SAFE_MODE" THEN 3500 ELSE 2500

SteeringLimit(mode) ==
    IF mode = "SOFT_LIMIT" THEN 1500 ELSE IF mode = "SAFE_MODE" THEN 1000 ELSE 500

\* a sanitize_speed that allows 5 km/h above the current speed
SanitizeSpeedRisesFive(mode, requested_speed, cur_speed) ==
    IF mode = "OFF" THEN requested_speed
    ELSE Max(Min(SpeedLimit(mode), cur_speed + 500), 1000)

\* sanitize_speed: the value returned
SanitizeSpeed(mode, requested_speed, cur_speed) ==
    IF mode = "OFF" THEN requested_speed
    ELSE Max(Min(SpeedLimit(mode), cur_speed + 200), 1000)

\* a sanitize_steering that forgets to clamp
SanitizeSteeringUnclamped(mode, safe_steering, requested_steering) ==
    IF mode = "OFF" THEN requested_steering ELSE (safe_steering * 9) \div 10

\* sanitize_steering: the value returned; 0.9 * last_safe_steering is a whole number of
\* hundredths, the stored angle being a whole number of tenths
SanitizeSteering(mode, safe_steering, requested_steering) ==
    IF mode = "OFF" THEN requested_steering
    ELSE LET decayed == (safe_steering * 9) \div 10
         IN  Max(-SteeringLimit(mode), Min(SteeringLimit(mode), decayed))

\* no sanitize call to report
NoSanCall == [seen |-> FALSE, kind |-> "", mode |-> "OFF", requested |-> 0, current |-> 0,
              safe |-> 0, result |-> 0, chained |-> FALSE, prevResult |-> 0]

NoIpsCall == [seen |-> FALSE, enabled |-> FALSE, trust |-> 0, attack |-> FALSE,
              prevMode |-> "OFF", mode |-> "OFF", timer |-> 0, ranFive |-> FALSE]

InitIps ==
    /\ ips_enabled = TRUE
    /\ ips_mode = "OFF"
    /\ last_safe_speed = 3000
    /\ last_safe_steering = 0
    /\ recovery_timer = 0
    /\ runStart = 0
    /\ ipsCall = NoIpsCall
    /\ sanCall = NoSanCall

\* a set_enabled that only stores the flag
SetEnabledFlagOnly(enabled) ==
    /\ ips_enabled' = enabled
    /\ UNCHANGED <<ips_mode, recovery_timer, runStart, last_safe_speed, last_safe_steering,
                   ipsCall>>

SetEnabled(enabled) ==
    /\ ips_enabled' = enabled
    /\ ips_mode' = IF enabled THEN ips_mode ELSE "OFF"
    /\ recovery_timer' = IF enabled THEN recovery_timer ELSE 0
    /\ runStart' = IF enabled THEN runStart ELSE 0
    /\ UNCHANGED <<last_safe_speed, last_safe_steering, ipsCall>>

\* self.state
IpsState ==
    [enabled |-> ips_enabled, mode |-> ips_mode, last_safe_speed |-> last_safe_speed,
     last_safe_steering |-> last_safe_steering, recovery_timer |-> recovery_timer]

\* update_policy as a function of the engine's state ips, with rs the start of the current
\* run of calls with trust >= 0.8: the state and the history it leaves
PolicyStep(ips, rs, trust, attack_active, t) ==
    LET mode2 == PolicyMode(ips.enabled, ips.mode, ips.recovery_timer, trust, t)
        timer2 == PolicyTimer(ips.enabled, ips.mode, ips.recovery_timer, trust, t)
    IN  [ips |-> [ips EXCEPT !.mode = mode2, !.recovery_timer = timer2],
         runStart |-> IF ~ips.enabled THEN rs
                      ELSE IF trust < 800 THEN 0
                      ELSE IF rs = 0 THEN t ELSE rs,
         ipsCall |-> [seen |-> TRUE, enabled |-> ips.enabled, trust |-> trust,
                      attack |-> attack_active, prevMode |-> ips.mode, mode |-> mode2,
                      timer |-> timer2, ranFive |-> rs # 0 /\ t - rs >= 5000]]

\* update_policy(trust_score, anomaly_score, attack_active); the last two are not read
UpdatePolicy(trust, anomaly, attack_active) ==
    LET r == PolicyStep(IpsState, runStart, trust, attack_active, now)
    IN  /\ ips_mode' = r.ips.mode
        /\ recovery_timer' = r.ips.recovery_timer
        /\ runStart' = r.runStart
        /\ ipsCall' = r.ipsCall
        /\ UNCHANGED <<ips_enabled, last_safe_speed, last_safe_steering>>

\* sanitize_speed(requested_speed, current_speed): in OFF mode it records the request
SanitizeSpeedCall(requested_speed, cur_speed) ==
    /\ last_safe_speed' = IF ips_mode = "OFF" THEN requested_speed ELSE last_safe_speed
    /\ UNCHANGED <<ips_enabled, ips_mode, last_safe_steering, recovery_timer, runStart, ipsCall>>

\* sanitize_steering(requested_steering): in OFF mode it records the request
SanitizeSteeringCall(requested_steering) ==
    /\ last_safe_steering' = IF ips_mode = "OFF" THEN requested_steering ELSE last_safe_steering
    /\ UNCHANGED <<ips_enabled, ips_mode, last_safe_speed, recovery_timer, runStart, ipsCall>>

\* what a sanitize_speed call is given and returns
SpeedCall(requested_speed, cur_speed) ==
    [seen |-> TRUE, kind |-> "speed", mode |-> ips_mode,
     requested |-> requested_speed, current |-> cur_speed, safe |-> last_safe_speed,
     result |-> SanitizeSpeed(ips_mode, requested_speed, cur_speed),
     chained |-> FALSE, prevResult |-> 0]

\* what a sanitize_steering call is given and returns; chained when the operation before it
\* was a sanitize_steering call in a mode other than OFF too
SteeringCall(requested_steering) ==
    [seen |-> TRUE, kind |-> "steering", mode |-> ips_mode,
     requested |-> requested_steering, current |-> 0, safe |-> last_safe_steering,
     result |-> SanitizeSteering(ips_mode, last_safe_steering, requested_steering),
     chained |-> sanCall.seen /\ sanCall.kind = "steering" /\ sanCall.mode # "OFF",
     prevResult |-> IF sanCall.seen /\ sanCall.kind = "steering" /\ sanCall.mode # "OFF"
                    THEN sanCall.result ELSE 0]

\* the values callers pass
SanTrustInputs == {0, 500, 700, 1000}
SanRequestedSpeeds == {0, 12000}
SanCurrentSpeeds == {0, 799, 800, 3000, 12000}
SanSteeringInputs == {-4500, 0, 1000, 2000}
IpsTrustInputs == {0, 499, 500, 699, 700, 799, 800, 1000}
IpsAnomalyInputs == {0, 1000}
IpsSpeedInputs == {0, 3000, 12000}
IpsSteeringInputs == {-4500, 0, 2000}
IpsTickSteps == {2500, 2501}

(***************************************************************************)
(* Signal codec (src/can_generator.py, src/can_listener.py)                *)
(***************************************************************************)
CAN_STEERING == 288     \* 0x120
CAN_BRAKE == 320        \* 0x140

\* int(target * 10).to_bytes(2, 'big') + b'\x00' * 6, for a target in hundredths
EncodeValue(target) == FrameData(target \div 10)

\* the angles, whole tenths of a degree all of them, for which the double
\* (target_steering + 45) * 10 comes out just below the whole number it stands for
FloatShort(angle) == angle >= -4470 /\ angle <= -3220 /\ angle % 50 \in {30, 40}

\* int((target_steering + 45) * 10).to_bytes(2, 'big') + b'\x00' * 6
EncodeSteering(angle) ==
    FrameData((angle + 4500) \div 10 - (IF FloatShort(angle) THEN 1 ELSE 0))

\* the payload a producer builds for a value
Encode(can_id, value) ==
    IF can_id = CAN_STEERING THEN EncodeSteering(value) ELSE EncodeValue(value)

\* int.from_bytes(data[:2], 'big')
RawValue(data) == 256 * data[1] + data[2]

\* a decoding that reads a frame of any other id as a speed frame
DecodeSignalAnyId(can_id, data) ==
    IF can_id = CAN_STEERING
    THEN [known |-> TRUE, signal_name |-> "steering", value |-> RawValue(data) * 10 - 4500]
    ELSE IF can_id = CAN_BRAKE
    THEN [known |-> TRUE, signal_name |-> "brake", value |-> RawValue(data) * 10]
    ELSE [known |-> TRUE, signal_name |-> "speed", value |-> RawValue(data) * 10]

\* the signal a frame decodes to, its value in hundredths
DecodeSignal(can_id, data) ==
    IF can_id = CAN_STEERING
    THEN [known |-> TRUE, signal_name |-> "steering", value |-> RawValue(data) * 10 - 4500]
    ELSE IF can_id = CAN_SPEED
    THEN [known |-> TRUE, signal_name |-> "speed", value |-> RawValue(data) * 10]
    ELSE IF can_id = CAN_BRAKE
    THEN [known |-> TRUE, signal_name |-> "brake", value |-> RawValue(data) * 10]
    ELSE [known |-> FALSE, signal_name |-> "", value |-> 0]

\* f'ecu-{can_id:03x}'
EcuName(can_id) ==
    IF can_id = CAN_STEERING THEN "ecu-120"
    ELSE IF can_id = CAN_SPEED THEN "ecu-130"
    ELSE IF can_id = CAN_BRAKE THEN "ecu-140"
    ELSE "ecu-7ff"

\* "ui-controller" in device_id, over the device ids of keys.py and the ecu-xxx names
IsUiController(device_id) == device_id = "vehicleA-ui-controller"

\* list[-n:]
LastN(list, n) ==
    IF Len(list) <= n THEN list ELSE SubSeq(list, Len(list) - n + 1, Len(list))

(***************************************************************************)
(* FeatureExtractor (src/feature_extractor.py).  A ring entry is the pair  *)
(* (timestamp, value) in the order add_message stores its arguments.       *)
(***************************************************************************)
Signals == {"steering", "speed", "brake"}

RECURSIVE DropOld(_, _)
\* while ring and ring[0][0] < cutoff_time: ring.popleft()
DropOld(ring, cutoff_time) ==
    IF ring # <<>> /\ ring[1][1] < cutoff_time THEN DropOld(Tail(ring), cutoff_time) ELSE ring

\* add_message(signal_name, timestamp, value); window_size is 1.0 in the unit of timestamp
AddMessage(history, signal_name, timestamp, value, window_size) ==
    [history EXCEPT ![signal_name] =
        DropOld(Append(history[signal_name], <<timestamp, value>>), timestamp - window_size)]

\* np.std(np.diff(timestamps)) > 0: the intervals are not all the same
Irregular(ring) ==
    \E i \in 1..(Len(ring) - 1), j \in 1..(Len(ring) - 1) :
        ring[i + 1][1] - ring[i][1] # ring[j + 1][1] - ring[j][1]

\* extract_features of a ring of at least two entries; frequency is the count per window,
\* jitter is kept as 0 or 1 (the standard deviation of the intervals is zero or not)
ExtractFeatures(ring) ==
    [frequency |-> Len(ring),
     delta |-> Abs(ring[Len(ring)][2] - ring[1][2]),
     jitter |-> IF Len(ring) > 2 /\ Irregular(ring) THEN 1 ELSE 0]

\* get_all_features: the signals with at least two entries, each with its features
GetAllFeatures(history) ==
    [s \in {x \in Signals : Len(history[x]) >= 2} |-> ExtractFeatures(history[s])]

(***************************************************************************)
(* AnomalyDetector (src/anomaly_detector.py).  The isolation forest is a   *)
(* library; its decision_function value is an input.                       *)
(***************************************************************************)
\* prepare_features: the 9-entry vector
PrepareFeatures(features_dict) ==
    LET part(s) == IF s \in DOMAIN features_dict
                   THEN <<features_dict[s].frequency, features_dict[s].delta,
                          features_dict[s].jitter>>
                   ELSE <<0, 0, 0>>
    IN  part("steering") \o part("speed") \o part("brake")

\* train: whether it succeeds
Train(training_features_list) ==
    /\ training_features_list # <<>>
    /\ Cardinality({i \in 1..Len(training_features_list) :
                       Len(PrepareFeatures(training_features_list[i])) = 9}) >= 10

\* detect_anomaly, given the raw decision value in thousandths
DetectAnomaly(trained, raw_score) ==
    IF ~trained THEN 0
    ELSE Min(ONE, IF raw_score < -100 THEN 800 + (Abs(raw_score) - 100) * 2
                  ELSE IF raw_score < -20 THEN 500 + (Abs(raw_score) - 20) * 3
                  ELSE IF raw_score < 20 THEN 200 + Abs(raw_score) * 10
                  ELSE 0)

(***************************************************************************)
(* PhysicsValidator (src/physics_validator.py)                             *)
(***************************************************************************)
\* _update_history
UpdateHistory(p, speed, steering, timestamp) ==
    [speed_history |-> LastN(Append(p.speed_history, speed), 10),
     steering_history |-> LastN(Append(p.steering_history, steering), 10),
     timestamp_history |-> LastN(Append(p.timestamp_history, timestamp), 10),
     last_speed |-> speed, last_steering |-> steering, last_timestamp |-> timestamp]

\* (speed_delta / 3.6) / dt, in thousandths of m/s^2
Acceleration(speed_delta, dt) == (speed_delta * 25 * ONE) \div (9 * dt)

\* validate_speed_physics: validity, score and the state it leaves
ValidateSpeedPhysics(p, speed, timestamp) ==
    IF p.speed_history = <<>>
    THEN [valid |-> TRUE, score |-> ONE, physics |-> UpdateHistory(p, speed, 0, timestamp)]
    ELSE LET dt == timestamp - p.last_timestamp
             speed_delta == speed - p.last_speed
         IN  IF dt <= 0 THEN [valid |-> TRUE, score |-> ONE, physics |-> p]
             ELSE LET a == Acceleration(speed_delta, dt)
                      v1 == IF speed_delta * 25 > 36 * dt
                            THEN Min(ONE, a \div 4 - ONE) ELSE 0
                      v2 == IF -speed_delta * 25 > 81 * dt
                            THEN Min(ONE, Acceleration(-speed_delta, dt) \div 9 - ONE) ELSE v1
                      v3 == IF Abs(speed_delta) > 500 /\ dt < 200 THEN Max(v2, 800) ELSE v2
                  IN  [valid |-> v3 < 500, score |-> ONE - v3,
                       physics |-> UpdateHistory(p, speed, 0, timestamp)]

\* validate_steering_physics
ValidateSteeringPhysics(p, steering, timestamp) ==
    IF p.steering_history = <<>>
    THEN [valid |-> TRUE, score |-> ONE, physics |-> UpdateHistory(p, 0, steering, timestamp)]
    ELSE LET dt == timestamp - p.last_timestamp
             steering_delta == Abs(steering - p.last_steering)
         IN  IF dt <= 0 THEN [valid |-> TRUE, score |-> ONE, physics |-> p]
             ELSE LET v == IF steering_delta > 3 * dt
                           THEN Min(ONE, (steering_delta * ONE) \div (3 * dt) - ONE) ELSE 0
                  IN  [valid |-> v < 500, score |-> ONE - v, physics |-> p]

\* validate_correlation
ValidateCorrelation(p, speed, steering, brake) ==
    LET v1 == IF Len(p.speed_history) >= 2 /\ speed > p.last_speed + 100 /\ brake > 1000
              THEN 700 ELSE 0
        still == {i \in 1..Len(p.steering_history) : Abs(p.steering_history[i]) < 100}
        v2 == IF speed > 8000 /\ Abs(steering) < 100 /\ Cardinality(still) > 8
              THEN Max(v1, 300) ELSE v1
        v3 == IF speed > 6000 /\ Abs(steering) > 2500 THEN Max(v2, 600) ELSE v2
    IN  [valid |-> v3 < 500, score |-> ONE - v3]

\* get_physics_score
GetPhysicsScore(p, speed, steering, brake, timestamp) ==
    LET s == ValidateSpeedPhysics(p, speed, timestamp)
        st == ValidateSteeringPhysics(s.physics, steering, timestamp)
        c == ValidateCorrelation(st.physics, speed, steering, brake)
    IN  [physics_score |-> (500 * s.score + 300 * st.score + 200 * c.score) \div ONE,
         speed_valid |-> s.valid, steering_valid |-> st.valid, correlation_valid |-> c.valid,
         steering_score |-> st.score,
         overall_valid |-> s.valid /\ st.valid /\ c.valid,
         physics |-> st.physics]

(***************************************************************************)
(* VehicleStateEngine (src/vehicle_state.py): speed, steering angle, brake *)
(* pressure and the two control flags.  Position and heading are           *)
(* integrated from these by the engine's own threads and are not modelled. *)
(***************************************************************************)
UpdateSpeed(v, new_speed) ==
    IF v.manual_control \/ v.brake_active THEN v ELSE [v EXCEPT !.speed = Max(0, new_speed)]

ForceSpeedUpdate(v, new_speed) ==
    [v EXCEPT !.manual_control = TRUE, !.speed = Max(0, new_speed)]

UpdateSteering(v, steering_angle) ==
    [v EXCEPT !.steering_angle = Max(-4500, Min(4500, steering_angle))]

\* apply_brake; _start_continuous_braking sets the flag, _stop_continuous_braking clears it
ApplyBrake(v, brake_pressure) ==
    LET v1 == [v EXCEPT !.brake_pressure = Max(0, Min(brake_pressure, 10000))]
    IN  IF brake_pressure > 0 /\ ~v.brake_active THEN [v1 EXCEPT !.brake_active = TRUE]
        ELSE IF brake_pressure = 0
        THEN [v1 EXCEPT !.brake_active = FALSE, !.brake_pressure = 0]
        ELSE v1

(***************************************************************************)
(* ContextualValidator (src/contextual_validator.py).  A sample is          *)
(* [timestamp, speed, steering, brake]; a sender without a window is not   *)
(* in the domain of the windows.                                           *)
(***************************************************************************)
CONTEXT_WINDOW == 20            \* window_size
STEER_HIGH_AT_SPEED == 1500     \* 15.0 degrees
MAX_STEER_RATE == 30            \* degrees per second
MAX_OSCILLATION_RATE == 3       \* sign flips per second
BRAKE_STEER_THRESHOLD == 1000   \* 10.0 degrees

\* add_vehicle_state: the sample joins the sender's window of at most 20
AddVehicleState(windows, sender_id, sample) ==
    [s \in DOMAIN windows \cup {sender_id} |->
        IF s # sender_id THEN windows[s]
        ELSE LastN(Append(IF s \in DOMAIN windows THEN windows[s] ELSE <<>>, sample),
                   CONTEXT_WINDOW)]

\* np.sign
Signum(x) == IF x > 0 THEN 1 ELSE IF x < 0 THEN -1 ELSE 0

\* 25 times np.var of the five numbers of xs
Var5Times25(xs) ==
    5 * (xs[1] * xs[1] + xs[2] * xs[2] + xs[3] * xs[3] + xs[4] * xs[4] + xs[5] * xs[5])
        - (xs[1] + xs[2] + xs[3] + xs[4] + xs[5]) * (xs[1] + xs[2] + xs[3] + xs[4] + xs[5])

\* violation 1, lines 59-66: a large steering step at more than 60 km/h
UnsafePhysics(win) ==
    LET n == Len(win)
    IN  win[n].speed > 6000 /\ Abs(win[n].steering - win[n - 1].steering) > STEER_HIGH_AT_SPEED

\* violation 2, lines 68-78: the steering changes of the last five samples flip sign at
\* more than 3 flips a second
ControlHijack(win) ==
    LET n == Len(win)
        change(i) == Signum(win[n - 4 + i].steering - win[n - 5 + i].steering)
        sign_flips == Cardinality({i \in 1..3 : change(i + 1) # change(i)})
        time_span == win[n].timestamp - win[n - 4].timestamp
    IN  n >= 5 /\ time_span > 0 /\ sign_flips * 1000 > MAX_OSCILLATION_RATE * time_span

\* violation 3, lines 80-88: steering variance above 25 with speed variance below 1
SignalInjection(win) ==
    LET n == Len(win)
    IN  /\ n >= 5
        /\ Var5Times25([i \in 1..5 |-> win[n - 5 + i].steering]) > 25 * 25 * 10000
        /\ Var5Times25([i \in 1..5 |-> win[n - 5 + i].speed]) < 25 * 10000

\* violation 4, lines 90-94: steering during hard braking
ContextMismatch(win) ==
    win[Len(win)].brake > 5000 /\ Abs(win[Len(win)].steering) > BRAKE_STEER_THRESHOLD

\* violation 5, lines 96-103: more than 30 degrees a second between the last two samples
ExcessiveRate(win) ==
    LET n == Len(win)
        time_delta == win[n].timestamp - win[n - 1].timestamp
    IN  /\ time_delta > 0
        /\ Abs(win[n].steering - win[n - 1].steering) * 10 > MAX_STEER_RATE * time_delta

\* validate_context: 0.0 for a sender without a window or with fewer than 3 samples,
\* else the weights of the violations, at most 1.0
ValidateContext(windows, sender_id) ==
    IF sender_id \notin DOMAIN windows THEN 0
    ELSE IF Len(windows[sender_id]) < 3 THEN 0
    ELSE Min(ONE, (IF UnsafePhysics(windows[sender_id]) THEN 800 ELSE 0)
                  + (IF ControlHijack(windows[sender_id]) THEN 700 ELSE 0)
                  + (IF SignalInjection(windows[sender_id]) THEN 600 ELSE 0)
                  + (IF ContextMismatch(windows[sender_id]) THEN 500 ELSE 0)
                  + (IF ExcessiveRate(windows[sender_id]) THEN 400 ELSE 0))

(***************************************************************************)
(* CANListener (src/can_listener.py).  The behavioural analyser and the    *)
(* temporal extractor are collaborators outside this repository's source;  *)
(* what they return for a frame is an input of the step.                   *)
(***************************************************************************)
MAX_TRAINING_SAMPLES == 25

\* behavioral_features when the analyser has nothing to report
NoFeatures == <<>>

\* control_anomaly_score from the behavioural features, lines 294-316
ControlAnomalyScore(b) ==
    IF b = NoFeatures THEN 0
    ELSE Min(ONE, (IF b.steering_energy > 5000 THEN 400 ELSE 0)
                  + (IF b.steering_jerk > 3000 THEN 300 ELSE 0)
                  + (IF b.oscillation_rate > 1000 THEN 500 ELSE 0)
                  + (IF b.control_aggression > 5000 THEN 300 ELSE 0))

\* total_anomaly_score before the physics override, lines 325-340
FusedAnomaly(ml_anomaly, control, context, physics_score, temporal_anomaly) ==
    LET ml_score == (400 * ml_anomaly + 400 * control + 200 * context) \div ONE
        temporal_score == ONE - temporal_anomaly
    IN  ONE - (600 * (ONE - ml_score) + 250 * physics_score + 150 * temporal_score) \div ONE

\* an override that lifts the score to 0.5 only
PhysicsOverrideWeak(total, overall_valid) ==
    IF ~overall_valid THEN Max(total, 500) ELSE total

\* if not physics_result['overall_valid']: total = max(total, 0.8)
PhysicsOverride(total, overall_valid) ==
    IF ~overall_valid THEN Max(total, 800) ELSE total

\* the training sample: the signal's features joined with the behavioural ones
CombinedFeatures(f, b) ==
    [k \in {"frequency", "delta", "jitter"} \cup DOMAIN b |->
        IF k \in DOMAIN b THEN b[k] ELSE f[k]]

\* for msg in reversed(secure_messages): the latest envelope with the frame's id
LatestFor(list, can_id) ==
    LET hits == {i \in 1..Len(list) : list[i].can_id = can_id}
    IN  IF hits = {} THEN NoEnvelope
        ELSE list[CHOOSE i \in hits : \A j \in hits : j <= i]

LogEntry(can_id, status, reason, device_id) ==
    [can_id |-> can_id, status |-> status, reason |-> reason, device_id |-> device_id]

NoFrame == [seen |-> FALSE, unsigned |-> FALSE, status |-> "", decoded |-> FALSE,
            counted |-> FALSE, collecting |-> FALSE, ui |-> FALSE, physicsValid |-> TRUE,
            physicsScore |-> ONE, fused |-> 0, anomaly |-> 0, trustUpdated |-> FALSE,
            ipsUpdated |-> FALSE, vehicleUpdated |-> FALSE, signal |-> "", mode |-> "OFF",
            value |-> 0, applied |-> 0, failed |-> "", raised |-> FALSE,
            trainCalled |-> FALSE, temporalAnomaly |-> 0, trustTemporal |-> 0,
            detected |-> FALSE, features |-> <<>>, vector |-> <<>>, kind |-> "", t |-> 0,
            sender |-> ""]

\* _process_message works through a decoded frame f = [can_id, sig, device_id, t, col,
\* unsigned, status] in phases; each takes and returns x = [world, report]

\* lines 193-234: the decoded value replaces the listener's current one, the feature
\* extractor is fed, the physics validator is asked.  Line 218 passes (signal_name,
\* signal_value, timestamp) to add_message(signal_name, timestamp, value).
Layers(w, f) ==
    LET name == f.sig.signal_name
        speed == IF name = "speed" THEN f.sig.value ELSE w.current_speed
        steering == IF name = "steering" THEN f.sig.value ELSE w.current_steering
        brake == IF name = "brake" THEN f.sig.value ELSE w.current_brake
        pr == GetPhysicsScore(w.physics, speed, steering, brake, f.t)
    IN  [world |-> [w EXCEPT !.current_speed = speed,
                             !.current_steering = steering,
                             !.current_brake = brake,
                             !.fe_history = AddMessage(@, name, f.sig.value, f.t, 100),
                             !.physics = pr.physics],
         report |-> [NoFrame EXCEPT !.seen = TRUE, !.unsigned = f.unsigned,
                                    !.status = f.status, !.decoded = TRUE, !.counted = TRUE,
                                    !.kind = name, !.t = f.t, !.sender = f.device_id,
                                    !.physicsValid = pr.overall_valid,
                                    !.physicsScore = pr.physics_score]]

\* a listener that goes on collecting and training after the detector is trained
TrainingPhaseOnline(x, f) ==
    LET w == x.world
        name == f.sig.signal_name
        ml_features == GetAllFeatures(w.fe_history)
        b == f.col.behavioural
        collect == /\ w.training_samples <= MAX_TRAINING_SAMPLES
                   /\ name \in DOMAIN ml_features /\ b # NoFeatures
    IN  IF ~collect THEN x
        ELSE LET feats1 == Append(w.training_features, CombinedFeatures(ml_features[name], b))
                 samples1 == w.training_samples + 1
             IN  IF samples1 < MAX_TRAINING_SAMPLES
                 THEN [x EXCEPT !.world.training_features = feats1,
                                !.world.training_samples = samples1]
                 ELSE IF Train(feats1)
                 THEN [x EXCEPT !.world.training_features = feats1,
                                !.world.training_samples = samples1,
                                !.world.training_mode = FALSE,
                                !.world.is_trained = TRUE,
                                !.report.trainCalled = TRUE]
                 ELSE [x EXCEPT !.world.training_features = <<>>,
                                !.world.training_samples = 0,
                                !.report.trainCalled = TRUE]

\* lines 243-266: a sample is collected, and the detector trained at the 25th
TrainingPhase(x, f) ==
    LET w == x.world
        name == f.sig.signal_name
        ml_features == GetAllFeatures(w.fe_history)
        b == f.col.behavioural
        collect == /\ w.training_mode /\ w.training_samples < MAX_TRAINING_SAMPLES
                   /\ name \in DOMAIN ml_features /\ b # NoFeatures
    IN  IF ~collect THEN x
        ELSE LET feats1 == Append(w.training_features, CombinedFeatures(ml_features[name], b))
                 samples1 == w.training_samples + 1
             IN  IF samples1 < MAX_TRAINING_SAMPLES
                 THEN [x EXCEPT !.world.training_features = feats1,
                                !.world.training_samples = samples1]
                 ELSE IF Train(feats1)
                 THEN [x EXCEPT !.world.training_features = feats1,
                                !.world.training_samples = samples1,
                                !.world.training_mode = FALSE,
                                !.world.is_trained = TRUE,
                                !.report.trainCalled = TRUE]
                 ELSE [x EXCEPT !.world.training_features = <<>>,
                                !.world.training_samples = 0,
                                !.report.trainCalled = TRUE]

\* lines 281-288: what the listener hands to detect_anomaly for a signal with features sf
DetectionFeatures(sf) ==
    [frequency |-> sf.frequency, delta |-> sf.delta, jitter |-> sf.jitter,
     timing_jitter |-> sf.jitter, delta_pattern |-> sf.delta]

\* lines 279-289: detect_anomaly is called for a frame whose signal has features
DetectionCall(x, f, sf) ==
    [x EXCEPT !.report.detected = TRUE,
              !.report.features = <<sf.frequency, sf.delta, sf.jitter>>,
              !.report.vector = PrepareFeatures(DetectionFeatures(sf))]

\* a scoring that does not wait for the training to end
DetectionPhaseWhileTraining(x, f) ==
    LET w == x.world
        ui == IsUiController(f.device_id)
        ml_anomaly == IF f.sig.signal_name \in DOMAIN GetAllFeatures(w.fe_history)
                      THEN DetectAnomaly(w.is_trained, f.col.raw_score) ELSE 0
        fused == FusedAnomaly(ml_anomaly, ControlAnomalyScore(f.col.behavioural),
                              ValidateContext(w.sender_windows, f.device_id),
                              x.report.physicsScore, f.col.temporal)
    IN  [x EXCEPT !.report.collecting = w.training_mode,
                  !.report.ui = ui,
                  !.report.temporalAnomaly = f.col.temporal,
                  !.report.fused = fused,
                  !.report.anomaly = IF ui THEN 0
                                     ELSE PhysicsOverride(fused, x.report.physicsValid)]

\* lines 268-347: total_anomaly_score.  The context score is the one validate_context
\* gave at line 229; the listener has no call of add_vehicle_state before it
DetectionPhase(x, f) ==
    LET w == x.world
        ui == IsUiController(f.device_id)
        ml_anomaly == IF f.sig.signal_name \in DOMAIN GetAllFeatures(w.fe_history)
                      THEN DetectAnomaly(w.is_trained, f.col.raw_score) ELSE 0
        fused == FusedAnomaly(ml_anomaly, ControlAnomalyScore(f.col.behavioural),
                              ValidateContext(w.sender_windows, f.device_id),
                              x.report.physicsScore, f.col.temporal)
        y == IF ~ui /\ ~w.training_mode
                   /\ f.sig.signal_name \in DOMAIN GetAllFeatures(w.fe_history)
                THEN DetectionCall(x, f, GetAllFeatures(w.fe_history)[f.sig.signal_name])
                ELSE x
    IN  [y EXCEPT !.report.collecting = w.training_mode,
                  !.report.ui = ui,
                  !.report.temporalAnomaly = f.col.temporal,
                  !.report.fused = fused,
                  !.report.anomaly = IF ui THEN 0
                                     ELSE IF ~w.training_mode
                                     THEN PhysicsOverride(fused, x.report.physicsValid)
                                     ELSE 0]

\* a collaborator call raises inside a try block: the handler prints and goes on
Swallow(x, failed) == [x EXCEPT !.report.failed = failed]

\* a collaborator call raises outside any try block: the exception leaves
\* _process_message and _listen_loop, which has no handler, and the thread ends
Raise(x, failed) ==
    [x EXCEPT !.report.failed = failed, !.report.raised = TRUE, !.world.listening = FALSE]

\* lines 354-393: a significant anomaly goes to the analytics log and to the alert log
AlertPhase(x, f) ==
    IF x.report.ui \/ x.report.collecting
       \/ ~(x.report.anomaly > 300 \/ ~x.report.physicsValid)
    THEN x
    ELSE IF f.col.fails = "log_security_event" THEN Raise(x, f.col.fails)
    ELSE IF f.col.fails = "log_security_alert" THEN Swallow(x, f.col.fails)
    ELSE x

\* lines 396-401: update_trust(total_anomaly_score, 1.0, 1.0)
TrustPhase(x, f) ==
    LET w == x.world
        total == x.report.anomaly
    IN  IF x.report.raised THEN x
        ELSE [x EXCEPT !.world.trustRaw = w.trust_score
                           + TrustDelta(EffectiveAnomaly(w.ml_enabled, total), ONE, ONE),
                       !.world.trust_score = TrustAfter(w.trust_score, w.ml_enabled, total, ONE, ONE),
                       !.report.trustTemporal = ONE,
                       !.report.trustUpdated = TRUE]

\* trust_engine.py lines 57-66, the trust log inside update_trust, and line 404, the
\* trust pattern sent to the analytics store
PatternPhase(x, f) ==
    IF x.report.raised THEN x
    ELSE IF f.col.fails = "log_trust_update" THEN Swallow(x, f.col.fails)
    ELSE IF f.col.fails = "update_trust_pattern" THEN Raise(x, f.col.fails)
    ELSE x

\* line 411: update_policy(trust_score, total_anomaly_score)
IpsPhase(x, f) ==
    LET w == x.world
        pol == PolicyStep(w.ips, w.runStart, w.trust_score, FALSE, f.t)
    IN  IF x.report.raised THEN x
        ELSE [x EXCEPT !.world.ips = pol.ips,
                       !.world.runStart = pol.runStart,
                       !.world.ipsCall = pol.ipsCall,
                       !.report.ipsUpdated = TRUE]

\* lines 414-427: when should_publish_alert says so, the V2V alert is published and the
\* attack goes to the analytics log
V2vPhase(x, f) ==
    IF x.report.raised \/ ~f.col.publish THEN x
    ELSE IF f.col.fails \in {"publish_v2v_alert", "log_attack_event"} THEN Raise(x, f.col.fails)
    ELSE x

\* a listener that hands the driver's own speed request to the vehicle as it came
SanitizedUnlessUi(ips, f, cur_speed) ==
    IF f.can_id = CAN_STEERING
    THEN SanitizeSteering(ips.mode, ips.last_safe_steering, f.sig.value)
    ELSE IF f.can_id = CAN_SPEED /\ ~IsUiController(f.device_id)
    THEN SanitizeSpeed(ips.mode, f.sig.value, cur_speed)
    ELSE f.sig.value

\* lines 433-446: the value the IPS engine lets through; a brake value is not sanitised
Sanitized(ips, f, cur_speed) ==
    IF f.can_id = CAN_STEERING
    THEN SanitizeSteering(ips.mode, ips.last_safe_steering, f.sig.value)
    ELSE IF f.can_id = CAN_SPEED
    THEN SanitizeSpeed(ips.mode, f.sig.value, cur_speed)
    ELSE f.sig.value

\* lines 433-460 with the sanitised value: it goes to the vehicle engine
VehicleApply(x, f, applied) ==
    LET mode == x.world.ips.mode
        value == f.sig.value
        seen == [x EXCEPT !.report.vehicleUpdated = TRUE,
                          !.report.signal = f.sig.signal_name,
                          !.report.mode = mode,
                          !.report.value = value,
                          !.report.applied = applied]
    IN  IF f.can_id = CAN_STEERING
        THEN [seen EXCEPT !.world.ips.last_safe_steering = IF mode = "OFF" THEN value ELSE @,
                          !.world.vehicle = UpdateSteering(@, applied)]
        ELSE IF f.can_id = CAN_SPEED
        THEN [seen EXCEPT !.world.ips.last_safe_speed = IF mode = "OFF" THEN value ELSE @,
                          !.world.vehicle = IF IsUiController(f.device_id)
                                            THEN ForceSpeedUpdate(@, applied)
                                            ELSE UpdateSpeed(@, applied)]
        ELSE [seen EXCEPT !.world.vehicle = ApplyBrake(@, applied)]

\* lines 433-460: the sanitised value goes to the vehicle engine
VehiclePhase(x, f) ==
    IF x.report.raised THEN x
    ELSE VehicleApply(x, f, Sanitized(x.world.ips, f, x.world.current_speed))

\* lines 193-460 for a decoded frame: the layers, training, scoring, trust, IPS, vehicle
Pipeline(w, f) ==
    VehiclePhase(V2vPhase(IpsPhase(PatternPhase(TrustPhase(AlertPhase(
        DetectionPhase(TrainingPhase(Layers(w, f), f), f), f), f), f), f), f), f)

\* a listener that also feeds the rejected frame's verdict to the trust score
RejectFramePenalised(w, can_id, found, v) ==
    [world |-> [w EXCEPT !.rejected_messages = @ + 1,
                         !.message_log = LastN(Append(@, LogEntry(can_id, "REJECTED",
                                             v.reason, found.device_id)), 50),
                         !.last_sequences = v.last_sequences,
                         !.message_history = v.message_history,
                         !.trust_score = Max(0, @ - 100)],
     report |-> [NoFrame EXCEPT !.seen = TRUE, !.status = "REJECTED",
                                !.ui = IsUiController(found.device_id)]]

\* lines 148-162: the verifier turned the envelope down
RejectFrame(w, can_id, found, v) ==
    [world |-> [w EXCEPT !.rejected_messages = @ + 1,
                         !.message_log = LastN(Append(@, LogEntry(can_id, "REJECTED",
                                             v.reason, found.device_id)), 50),
                         !.last_sequences = v.last_sequences,
                         !.message_history = v.message_history],
     report |-> [NoFrame EXCEPT !.seen = TRUE, !.status = "REJECTED",
                                !.ui = IsUiController(found.device_id)]]

\* lines 163-211: the frame is counted and logged, as VERIFIED with its envelope and as
\* ACCEPTED without one, and decoded
AcceptFrame(w, msg, t, col, found, v) ==
    LET can_id == msg.arbitration_id
        unsigned == found = NoEnvelope
        status == IF unsigned THEN "ACCEPTED" ELSE "VERIFIED"
        device_id == IF unsigned THEN EcuName(can_id) ELSE found.device_id
        reason == IF unsigned THEN "No signature found - accepting"
                  ELSE "Valid HMAC signature"
        sig == DecodeSignal(can_id, IF unsigned THEN msg.data ELSE FromHex(found.payload))
        w1 == [w EXCEPT !.verified_messages = @ + 1,
                        !.message_log = LastN(Append(@, LogEntry(can_id, status,
                                            reason, device_id)), 50),
                        !.last_sequences = IF unsigned THEN @ ELSE v.last_sequences,
                        !.message_history = IF unsigned THEN @ ELSE v.message_history]
    IN  IF ~sig.known
        THEN [world |-> w1,
              report |-> [NoFrame EXCEPT !.seen = TRUE, !.unsigned = unsigned,
                                         !.status = status, !.counted = TRUE]]
        ELSE Pipeline(w1, [can_id |-> can_id, sig |-> sig, device_id |-> device_id,
                           t |-> t, col |-> col, unsigned |-> unsigned, status |-> status])

\* lines 146-190 with the envelope found and the verifier's answer
Verified(w, msg, t, col, found, v) ==
    IF found # NoEnvelope /\ ~v.ok
    THEN RejectFrame(w, msg.arbitration_id, found, v)
    ELSE AcceptFrame(w, msg, t, col, found, v)

\* lines 131-147 with the envelope found
WithEnvelope(w, msg, t, col, found) ==
    Verified(w, msg, t, col, found,
             VerifyMessage(w.last_sequences, w.message_history, t, found))

\* _process_message(message) at clock t, with the collaborators' answers col
ProcessMessage(w, msg, t, col) ==
    WithEnvelope(w, msg, t, col, LatestFor(w.secure_messages, msg.arbitration_id))

\* _send_speed / _send_steering / _send_brake for one signal: sign, store the envelope in
\* the exchange (last 10), put the frame on the bus (last 10)
SendSigned(w, d, can_id, target, t) ==
    LET data == Encode(can_id, target)
    IN  [w EXCEPT !.sequence = [@ EXCEPT ![d] = @ + 1],
                  !.sequence_file = [@ EXCEPT ![d] = w.sequence[d] + 1],
                  !.secure_messages = LastN(Append(@, SignMessage(d, w.sequence[d], t, can_id, data)), 10),
                  !.bus = LastN(Append(@, [arbitration_id |-> can_id, data |-> data]), 10)]

\* one turn of _listen_loop with a frame waiting: recv, count, process
ListenTurn(w, t, col) ==
    ProcessMessage([w EXCEPT !.bus = Tail(@), !.message_count = @ + 1], Head(w.bus), t, col)

\* the listener and every object it owns, as one record
Current ==
    [sequence |-> sequence, sequence_file |-> sequence_file,
     secure_messages |-> secure_messages, bus |-> bus,
     message_count |-> message_count, verified_messages |-> verified_messages,
     rejected_messages |-> rejected_messages, message_log |-> message_log,
     training_mode |-> training_mode, training_samples |-> training_samples,
     training_features |-> training_features, current_speed |-> current_speed,
     current_steering |-> current_steering, current_brake |-> current_brake,
     fe_history |-> fe_history, physics |-> physics, is_trained |-> is_trained,
     listening |-> listening, sender_windows |-> sender_windows,
     trust_score |-> trust_score, ml_enabled |-> ml_enabled, trustRaw |-> trustRaw,
     last_sequences |-> last_sequences, message_history |-> message_history,
     ips |-> IpsState, runStart |-> runStart, ipsCall |-> ipsCall, vehicle |-> vehicle]

\* the listener's own variables hold the values of w
ListenerIs(w) ==
    /\ secure_messages = w.secure_messages
    /\ bus = w.bus
    /\ message_count = w.message_count
    /\ verified_messages = w.verified_messages
    /\ rejected_messages = w.rejected_messages
    /\ message_log = w.message_log
    /\ training_mode = w.training_mode
    /\ training_samples = w.training_samples
    /\ training_features = w.training_features
    /\ current_speed = w.current_speed
    /\ current_steering = w.current_steering
    /\ current_brake = w.current_brake
    /\ fe_history = w.fe_history
    /\ physics = w.physics
    /\ is_trained = w.is_trained
    /\ listening = w.listening
    /\ sender_windows = w.sender_windows
    /\ vehicle = w.vehicle

\* the variables of the listener and of the objects it drives hold the values of w
Is(w) ==
    /\ ListenerIs(w)
    /\ sequence = w.sequence
    /\ sequence_file = w.sequence_file
    /\ trust_score = w.trust_score
    /\ ml_enabled = w.ml_enabled
    /\ trustRaw = w.trustRaw
    /\ last_sequences = w.last_sequences
    /\ message_history = w.message_history
    /\ ips_enabled = w.ips.enabled
    /\ ips_mode = w.ips.mode
    /\ last_safe_speed = w.ips.last_safe_speed
    /\ last_safe_steering = w.ips.last_safe_steering
    /\ recovery_timer = w.ips.recovery_timer
    /\ runStart = w.runStart
    /\ ipsCall = w.ipsCall

\* the same variables take the values of w
Becomes(w) ==
    /\ secure_messages' = w.secure_messages
    /\ bus' = w.bus
    /\ message_count' = w.message_count
    /\ verified_messages' = w.verified_messages
    /\ rejected_messages' = w.rejected_messages
    /\ message_log' = w.message_log
    /\ training_mode' = w.training_mode
    /\ training_samples' = w.training_samples
    /\ training_features' = w.training_features
    /\ current_speed' = w.current_speed
    /\ current_steering' = w.current_steering
    /\ current_brake' = w.current_brake
    /\ fe_history' = w.fe_history
    /\ physics' = w.physics
    /\ is_trained' = w.is_trained
    /\ listening' = w.listening
    /\ sender_windows' = w.sender_windows
    /\ vehicle' = w.vehicle
    /\ sequence' = w.sequence
    /\ sequence_file' = w.sequence_file
    /\ trust_score' = w.trust_score
    /\ ml_enabled' = w.ml_enabled
    /\ trustRaw' = w.trustRaw
    /\ last_sequences' = w.last_sequences
    /\ message_history' = w.message_history
    /\ ips_enabled' = w.ips.enabled
    /\ ips_mode' = w.ips.mode
    /\ last_safe_speed' = w.ips.last_safe_speed
    /\ last_safe_steering' = w.ips.last_safe_steering
    /\ recovery_timer' = w.ips.recovery_timer
    /\ runStart' = w.runStart
    /\ ipsCall' = w.ipsCall

\* the outcome r of a turn of the listener becomes the state
Takes(r) ==
    /\ Becomes(r.world)
    /\ frameRec' = r.report

\* the devices that put frames on the bus
ProducerDevices == {"vehicleA-speed-ecu", "vehicleA-steering-ecu", "vehicleA-brake-ecu",
                    "vehicleA-ui-controller"}

\* CANListener.__init__ and the construction of everything around it, at clock NowStart
FreshWorld ==
    [sequence |-> [d \in ProducerDevices |-> LoadSequence(NoFile)],
     sequence_file |-> [d \in ProducerDevices |-> NoFile],
     secure_messages |-> <<>>, bus |-> <<>>,
     message_count |-> 0, verified_messages |-> 0, rejected_messages |-> 0,
     message_log |-> <<>>,
     training_mode |-> TRUE, training_samples |-> 0, training_features |-> <<>>,
     current_speed |-> 3000, current_steering |-> 0, current_brake |-> 0,
     fe_history |-> [s \in Signals |-> <<>>],
     physics |-> [speed_history |-> <<>>, steering_history |-> <<>>,
                  timestamp_history |-> <<>>, last_speed |-> 0, last_steering |-> 0,
                  last_timestamp |-> NowStart],
     is_trained |-> FALSE, listening |-> TRUE, sender_windows |-> <<>>,
     trust_score |-> MAX_TRUST, ml_enabled |-> TRUE, trustRaw |-> MAX_TRUST,
     last_sequences |-> [d \in KeyedDevices |-> 0],
     message_history |-> [d \in KeyedDevices |-> <<>>],
     ips |-> [enabled |-> TRUE, mode |-> "OFF", last_safe_speed |-> 3000,
              last_safe_steering |-> 0, recovery_timer |-> 0],
     runStart |-> 0, ipsCall |-> NoIpsCall,
     vehicle |-> [speed |-> 0, steering_angle |-> 0, brake_pressure |-> 0,
                  brake_active |-> FALSE, manual_control |-> FALSE]]

\* no send and no recv under way, nothing sent or returned yet
NoBusIo == [sending |-> FALSE, sendList |-> <<>>, receiving |-> FALSE, recvList |-> <<>>,
            sent |-> 0, returned |-> <<>>]

\* no signer has started without its sequence file
NoReseed == [after |-> FALSE, earlier |-> 0, seen |-> FALSE, ok |-> FALSE,
             farBelow |-> FALSE, inTime |-> FALSE, present |-> FALSE, anchored |-> FALSE,
             kept |-> FALSE]

\* no get_physics_score call yet
NoPhysCall == [calls |-> 0, step |-> 0, speed |-> 0, steering |-> 0, brake |-> 0,
               prevSpeed |-> 0, prevSteering |-> 0, steering_score |-> ONE,
               steering_valid |-> TRUE, correlation_valid |-> TRUE, overall_valid |-> TRUE]

\* start_listening has set the flag and started the thread; nobody has called stop()
NoLoop == [running |-> TRUE, pc |-> "check", start |-> 0, stop |-> "no", stopAt |-> 0,
           message |-> [arbitration_id |-> 0, data |-> <<>>]]

InitListenerOwn ==
    /\ busIo = NoBusIo
    /\ reseed = NoReseed
    /\ physCall = NoPhysCall
    /\ listenLoop = NoLoop
    /\ brakeThreads = <<>>
    /\ ListenerIs(FreshWorld)
    /\ frames = 0
    /\ benign = 0
    /\ ticks = 0
    /\ frameRec = NoFrame

\* no value is on its way through the codec
NoCodec == [stage |-> "", can_id |-> 0, value |-> 0, data |-> <<>>, decoded |-> 0]

InitListener == InitListenerOwn /\ codec = NoCodec

\* ---- what the behavioural analyser may answer
Calm == [steering_energy |-> 0, steering_jerk |-> 0, oscillation_rate |-> 0,
         control_aggression |-> 0]
Aggressive == [steering_energy |-> 6000, steering_jerk |-> 4000, oscillation_rate |-> 0,
               control_aggression |-> 0]
\* the collaborators' answers to a frame of steady traffic
BaselineCol == [behavioural |-> Calm, temporal |-> 0, raw_score |-> 100, publish |-> FALSE,
                fails |-> ""]

\* ---- frames and answers offered to the listener
\* the most frames put on the bus, and the most clock steps, after the start
MaxFrames == 2
MaxTicks == 1
\* the most turns of steady traffic
MaxBenign == 26

ListenTickSteps == {100}
ProducerSends == {<<"vehicleA-speed-ecu", CAN_SPEED, 3000>>,
                  <<"vehicleA-speed-ecu", CAN_SPEED, 12000>>,
                  <<"vehicleA-steering-ecu", CAN_STEERING, 0>>,
                  <<"vehicleA-ui-controller", CAN_SPEED, 12000>>}
InjectFrames == {[arbitration_id |-> CAN_SPEED, data |-> EncodeValue(12000)]}
AlarmingCol == [behavioural |-> Aggressive, temporal |-> 1000, raw_score |-> -300,
                publish |-> FALSE, fails |-> ""]
ColInputs == {BaselineCol, AlarmingCol}

\* the collaborator calls of one frame, and the answers with one of them failing
CollaboratorCalls == {"log_security_event", "log_security_alert", "log_trust_update",
                      "update_trust_pattern", "publish_v2v_alert", "log_attack_event"}
FaultCols == {[AlarmingCol EXCEPT !.publish = TRUE, !.fails = c] : c \in CollaboratorCalls}
                 \cup {BaselineCol}

\* traffic other than the steady one begins at a fresh listener or after the whole warm-up
Settled == benign = 0 \/ benign = MaxBenign

ListenTick(step) ==
    /\ Settled
    /\ ticks < MaxTicks
    /\ Tick(step)
    /\ ticks' = ticks + 1

\* steady traffic, before anything else happens: 100 ms pass, the generator sends its speed
\* frame for 30.0 km/h, and the listener processes it with nothing unusual reported
Benign ==
    /\ listening
    /\ benign < MaxBenign
    /\ frames = 0 /\ ticks = 0
    /\ bus = <<>>
    /\ now + 100 <= NowStart + MaxClock
    /\ now' = now + 100
    /\ Takes(ListenTurn(SendSigned(Current, "vehicleA-speed-ecu", CAN_SPEED, 3000, now + 100),
                        now + 100, BaselineCol))
    /\ benign' = benign + 1

\* a producer signs a frame, stores the envelope and sends the frame
Send(d, can_id, target) ==
    /\ Settled
    /\ frames < MaxFrames
    /\ Becomes(SendSigned(Current, d, can_id, target, now))
    /\ frames' = frames + 1

\* a node with bus access puts a frame on the bus and stores no envelope
Inject(frame) ==
    /\ Settled
    /\ frames < MaxFrames
    /\ bus' = LastN(Append(bus, frame), 10)
    /\ frames' = frames + 1

\* the listener takes the oldest frame off the bus and processes it
Receive(col) ==
    /\ listening
    /\ bus # <<>>
    /\ Takes(ListenTurn(Current, now, col))

\* the most turns of traffic other than the steady one
MaxTurns == 4

\* 100 ms pass, a producer signs and sends a frame, and the listener processes it
Turn(d, can_id, target, col) ==
    /\ listening
    /\ Settled
    /\ frames < MaxTurns
    /\ bus = <<>>
    /\ now + 100 <= NowStart + MaxClock
    /\ now' = now + 100
    /\ Takes(ListenTurn(SendSigned(Current, d, can_id, target, now + 100), now + 100, col))
    /\ frames' = frames + 1

\* ---- MockCANBus (src/can_generator.py) between the generator program and the listener
\* program.  Each program imports can_generator and so has a _mock_bus and a lock of its
\* own; what the two share is MESSAGE_FILE.  A send or a recv loads the list from the
\* file and stores it back in two steps.
\* the most send calls
MaxSends == 4

\* the n-th frame the producer sends
NthFrame(n) == [arbitration_id |-> CAN_SPEED, data |-> FrameData(n)]

\* send, lines 31-37: under the producer's lock, the list is loaded from the file
SendLoad ==
    /\ ~busIo.sending
    /\ busIo.sent < MaxSends
    /\ busIo' = [busIo EXCEPT !.sending = TRUE, !.sendList = bus, !.sent = @ + 1]
    /\ UNCHANGED bus

\* send, lines 38-41: the message is appended, the last 10 are written to the file
SendStore ==
    /\ busIo.sending
    /\ bus' = LastN(Append(busIo.sendList, NthFrame(busIo.sent)), 10)
    /\ busIo' = [busIo EXCEPT !.sending = FALSE, !.sendList = <<>>]

\* recv, lines 48-53: under the listener's lock, a list that is not empty is loaded
RecvLoad ==
    /\ ~busIo.receiving
    /\ bus # <<>>
    /\ busIo' = [busIo EXCEPT !.receiving = TRUE, !.recvList = bus]
    /\ UNCHANGED bus

\* recv, lines 54-58: the first message is popped, the rest written back, the message
\* returned
RecvStore ==
    /\ busIo.receiving
    /\ bus' = Tail(busIo.recvList)
    /\ busIo' = [busIo EXCEPT !.receiving = FALSE, !.recvList = <<>>,
                              !.returned = Append(@, Head(busIo.recvList))]

\* ---- the physics validator on its own
\* the most get_physics_score calls
MaxPhysCalls == 3

PhysSteps == {0, 100}
PhysSpeeds == {3000, 3200}
PhysSteerings == {0, 400, 450}
PhysBrakes == {0, 2000}

\* history: the call, the arguments of the call before it, and what it answered
PhysCall(step, speed, steering, brake, r) ==
    [calls |-> physCall.calls + 1, step |-> step, speed |-> speed, steering |-> steering,
     brake |-> brake, prevSpeed |-> physCall.speed, prevSteering |-> physCall.steering,
     steering_score |-> r.steering_score, steering_valid |-> r.steering_valid,
     correlation_valid |-> r.correlation_valid, overall_valid |-> r.overall_valid]

\* r is what a get_physics_score call answers; the validator takes the state it leaves
PhysicsTakes(step, speed, steering, brake, r) ==
    /\ physics' = r.physics
    /\ physCall' = PhysCall(step, speed, steering, brake, r)

\* `step` ms after the last call, get_physics_score(speed, steering, brake, now)
PhysicsScoreCall(step, speed, steering, brake) ==
    /\ physCall.calls < MaxPhysCalls
    /\ now' = now + step
    /\ PhysicsTakes(step, speed, steering, brake,
                    GetPhysicsScore(physics, speed, steering, brake, now + step))

\* ---- the codec on its own
\* how far from each end of a signal's range the values offered reach, in hundredths
CodecSpan == 60

CodecInputs ==
    {<<CAN_STEERING, a>> : a \in (-4500 .. -4500 + CodecSpan) \cup (4500 - CodecSpan .. 4500)}
    \cup {<<CAN_SPEED, v>> : v \in (0 .. CodecSpan) \cup (655350 - CodecSpan .. 655350)}
    \cup {<<CAN_BRAKE, b>> : b \in (0 .. CodecSpan) \cup (10000 - CodecSpan .. 10000)}

\* a producer encodes its target value into a frame's payload
EncodeFrame ==
    /\ codec.stage = "value"
    /\ codec' = [codec EXCEPT !.stage = "encoded", !.data = Encode(codec.can_id, codec.value)]

\* the listener decodes the payload
DecodeFrame ==
    /\ codec.stage = "encoded"
    /\ codec' = [codec EXCEPT !.stage = "decoded",
                              !.decoded = DecodeSignal(codec.can_id, codec.data).value]

(***************************************************************************)
(* Specifications                                                          *)
(***************************************************************************)
\* ---- recovery: trust is back at 0.8 or more and stays there
RecoverTrustInputs == {800, 900, 1000}
RecoverTickSteps == {1000, 2500, 2501}

\* time passes between the calls; the clock is followed from the first call of the run
\* until the recovery time has gone by
RecoverTick(step) ==
    /\ runStart # 0
    /\ ~RecoveryElapsed(now, runStart)
    /\ now' = now + step

RecoverTicks ==
    (\E step \in RecoverTickSteps : RecoverTick(step))
        /\ UNCHANGED <<trustVars, verifierVars, signerVars, ipsVars, listenerVars>>

\* the listener calls update_policy for the frame at hand
RecoverCalls ==
    (\E t \in RecoverTrustInputs : UpdatePolicy(t, 0, FALSE))
        /\ UNCHANGED <<now, sanCall, trustVars, verifierVars, signerVars, listenerVars>>

\* the signers as the generator constructs them over an empty /tmp, and not used
InitSignerIdle ==
    /\ sequence_file = [d \in SignerDevices |-> NoFile]
    /\ sequence = [d \in SignerDevices |-> LoadSequence(NoFile)]
    /\ outbox = [d \in SignerDevices |-> <<>>]
    /\ signed = [d \in SignerDevices |-> 0]
    /\ foreign = [d \in SignerDevices |-> FALSE]
    /\ delivery = NoDelivery

\* the trust engine alone, driven through its public methods
InitTrust == InitTrustEngine /\ InitClock /\ InitIps /\ InitVerifier /\ InitSignerIdle /\ InitListener

NextTrust ==
    /\ \/ \E a \in ScoreInputs, au \in ScoreInputs, te \in ScoreInputs : UpdateTrust(a, au, te)
       \/ ResetTrust
       \/ \E b \in BOOLEAN : SetMlEnabled(b)
    /\ UNCHANGED <<now, trustCall, verifierVars, signerVars, ipsVars, listenerVars>>

SpecTrust == InitTrust /\ [][NextTrust]_vars

\* the trust engine with each update_trust call on record
CallAnomalies == {0, 50, 99, 100, 1000}
CallAuths == {800, 1000}
CallTemporals == {500, 1000}

NextTrustCalls ==
    /\ \/ \E a \in CallAnomalies, au \in CallAuths, te \in CallTemporals :
              UpdateTrust(a, au, te) /\ trustCall' = TrustCall(a, au, te)
       \/ ResetTrust /\ trustCall' = NoTrustCall
       \/ (\E b \in BOOLEAN : SetMlEnabled(b)) /\ trustCall' = NoTrustCall
    /\ UNCHANGED <<now, verifierVars, signerVars, ipsVars, listenerVars>>

SpecTrustCalls == InitTrust /\ [][NextTrustCalls]_vars

\* the verifier alone, handed genuine, tampered and forged envelopes as time passes
InitVerify == InitTrustEngine /\ InitClock /\ InitIps /\ InitVerifier /\ InitSignerIdle /\ InitListener

NextVerify ==
    \/ (\E step \in TickSteps : Tick(step)) /\ UNCHANGED <<trustVars, verifierVars, signerVars, ipsVars, listenerVars>>
    \/ VerifyGenuine /\ UNCHANGED <<trustVars, now, marked, replay, signerVars, ipsVars, listenerVars>>
    \/ VerifyTampered /\ UNCHANGED <<trustVars, now, marked, replay, signerVars, ipsVars, listenerVars>>
    \/ VerifyForged /\ UNCHANGED <<trustVars, now, marked, replay, signerVars, ipsVars, listenerVars>>

SpecVerify == InitVerify /\ [][NextVerify]_vars

\* the same verifier and envelopes, observed for replays
NextReplay ==
    \/ (\E step \in TickSteps : Tick(step)) /\ UNCHANGED <<trustVars, verifierVars, signerVars, ipsVars, listenerVars>>
    \/ ReplayGenuine /\ UNCHANGED <<trustVars, now, call, lastAccepted, signerVars, ipsVars, listenerVars>>
    \/ ReplayTampered /\ UNCHANGED <<trustVars, now, call, lastAccepted, signerVars, ipsVars, listenerVars>>
    \/ ReplayForged /\ UNCHANGED <<trustVars, now, call, lastAccepted, signerVars, ipsVars, listenerVars>>

SpecReplay == InitVerify /\ [][NextReplay]_vars

\* the signers and the verifier: envelopes are signed, and handed over in signing order
InitSign == InitTrustEngine /\ InitClock /\ InitIps /\ InitVerifier /\ InitSigner /\ InitListener

NextSign ==
    \/ (\E step \in TickSteps : Tick(step)) /\ UNCHANGED <<trustVars, verifierVars, signerVars, ipsVars, listenerVars>>
    \/ (\E d \in SignerDevices, c \in SignCanIds, data \in SignData : Sign(d, c, data))
           /\ UNCHANGED <<trustVars, now, verifierVars, ipsVars, listenerVars>>
    \/ (\E d \in SignerDevices : RemoveSequenceFile(d))
           /\ UNCHANGED <<trustVars, now, verifierVars, ipsVars, listenerVars>>
    \/ (\E d \in SignerDevices : SignerRestart(d))
           /\ UNCHANGED <<trustVars, now, verifierVars, ipsVars, listenerVars>>
    \/ (\E d \in SignerDevices : Deliver(d))
           /\ UNCHANGED <<trustVars, now, call, lastAccepted, marked, replay, ipsVars, listenerVars>>

SpecSign == InitSign /\ [][NextSign]_vars

\* a signer that is killed and started again, at any point of sign_message; the envelopes
\* it issued are kept in the outbox
NextCrash ==
    \/ (\E step \in TickSteps : Tick(step)) /\ UNCHANGED <<trustVars, verifierVars, signerVars, ipsVars, listenerVars>>
    \/ (\E d \in SignerDevices, c \in SignCanIds, data \in SignData : Sign(d, c, data))
           /\ UNCHANGED <<trustVars, now, verifierVars, ipsVars, listenerVars>>
    \/ (\E d \in SignerDevices :
            \E left \in SaveOutcomes(sequence_file[d], sequence[d] + 1) : SignCrashes(d, left))
           /\ UNCHANGED <<trustVars, now, verifierVars, ipsVars, listenerVars>>
    \/ (\E d \in SignerDevices : SignerRestart(d))
           /\ UNCHANGED <<trustVars, now, verifierVars, ipsVars, listenerVars>>

SpecCrash == InitSign /\ [][NextCrash]_vars

\* history: a signer starts with its sequence file missing while the verifier holds a
\* sequence of the device; `earlier` counts the envelopes of before still under way
RecordReseed(d) ==
    reseed' = IF sequence_file[d] = NoFile /\ last_sequences[d] # 0 /\ ~reseed.seen
              THEN [NoReseed EXCEPT !.after = TRUE, !.earlier = Len(outbox[d])]
              ELSE reseed

\* history: the hand-over of the first envelope issued after that start
RecordHandOver(d) ==
    LET m == Head(outbox[d])
        r == VerifyMessage(last_sequences, message_history, now, m)
    IN  reseed' = IF ~reseed.after \/ reseed.seen THEN reseed
                  ELSE IF reseed.earlier > 0 THEN [reseed EXCEPT !.earlier = @ - 1]
                  ELSE [reseed EXCEPT !.seen = TRUE, !.ok = r.ok,
                                      !.farBelow = m.sequence < last_sequences[d] - 100,
                                      !.inTime = Abs(now - m.timestamp) <= 5000,
                                      !.present = ~MissingFields(m),
                                      !.anchored = r.last_sequences[d] = m.sequence,
                                      !.kept = r.last_sequences[d] = last_sequences[d]]

\* the signers and the verifier, observed for signers that start without their file
NextRestart ==
    /\ \/ (\E step \in TickSteps : Tick(step))
              /\ UNCHANGED <<verifierVars, signerVars, reseed>>
       \/ (\E d \in SignerDevices, c \in SignCanIds, data \in SignData : Sign(d, c, data))
              /\ UNCHANGED <<now, verifierVars, reseed>>
       \/ (\E d \in SignerDevices : RemoveSequenceFile(d))
              /\ UNCHANGED <<now, verifierVars, reseed>>
       \/ (\E d \in SignerDevices : SignerRestart(d) /\ RecordReseed(d))
              /\ UNCHANGED <<now, verifierVars>>
       \/ (\E d \in SignerDevices : Deliver(d) /\ RecordHandOver(d))
              /\ UNCHANGED <<now, call, lastAccepted, marked, replay>>
    /\ UNCHANGED <<trustVars, ipsVars, secure_messages, message_count, verified_messages,
                   rejected_messages, message_log, training_mode, training_samples,
                   training_features, current_speed, current_steering, current_brake,
                   fe_history, physics, is_trained, vehicle, listening, sender_windows,
                   codec, busIo, bus, physCall, listenLoop, brakeThreads,
                   frames, benign, ticks, frameRec>>

SpecRestart == InitSign /\ [][NextRestart]_vars

\* the engine as a call with trust below 0.8 left it, and from then on called with
\* trust at 0.8 or more only; calls and clock steps keep coming
InitRecover ==
    /\ InitTrustEngine /\ InitClock /\ InitVerifier /\ InitSignerIdle /\ InitListener
    /\ ips_enabled = TRUE
    /\ ips_mode \in {"SOFT_LIMIT", "SAFE_MODE", "CRITICAL"}
    /\ last_safe_speed = 3000
    /\ last_safe_steering = 0
    /\ recovery_timer = 0
    /\ runStart = 0
    /\ ipsCall = NoIpsCall
    /\ sanCall = NoSanCall

NextRecover == RecoverTicks \/ RecoverCalls

SpecRecover ==
    InitRecover /\ [][NextRecover]_vars /\ WF_vars(RecoverTicks) /\ WF_vars(RecoverCalls)

\* the generator program sending and the listener program receiving over the file
NextBus ==
    /\ SendLoad \/ SendStore \/ RecvLoad \/ RecvStore
    /\ UNCHANGED <<now, trustVars, verifierVars, signerVars, ipsVars, secure_messages,
                   message_count, verified_messages, rejected_messages, message_log,
                   training_mode, training_samples, training_features, current_speed,
                   current_steering, current_brake, fe_history, physics, is_trained,
                   vehicle, listening, sender_windows, frames, benign, ticks, frameRec,
                   codec, reseed, physCall, listenLoop, brakeThreads>>

SpecBus == InitTrust /\ [][NextBus]_vars

\* the physics validator called again and again as time passes
NextPhysics ==
    /\ \E step \in PhysSteps, speed \in PhysSpeeds, steering \in PhysSteerings,
          brake \in PhysBrakes : PhysicsScoreCall(step, speed, steering, brake)
    /\ UNCHANGED <<trustVars, verifierVars, signerVars, ipsVars, secure_messages,
                   message_count, verified_messages, rejected_messages, message_log,
                   training_mode, training_samples, training_features, current_speed,
                   current_steering, current_brake, fe_history, is_trained, vehicle,
                   listening, sender_windows, bus, frames, benign, ticks, frameRec, codec,
                   busIo, reseed, listenLoop, brakeThreads>>

SpecPhysics == InitTrust /\ [][NextPhysics]_vars

\* a value of a signal's range, encoded by its producer and decoded by the listener
InitCodec ==
    /\ InitTrustEngine /\ InitClock /\ InitIps /\ InitVerifier /\ InitSignerIdle
    /\ InitListenerOwn
    /\ codec \in {[NoCodec EXCEPT !.stage = "value", !.can_id = c[1], !.value = c[2]] :
                      c \in CodecInputs}

NextCodec ==
    /\ EncodeFrame \/ DecodeFrame
    /\ UNCHANGED <<now, trustVars, verifierVars, signerVars, ipsVars, secure_messages,
                   message_count, verified_messages, rejected_messages, message_log,
                   training_mode, training_samples, training_features, current_speed,
                   current_steering, current_brake, fe_history, physics, is_trained,
                   vehicle, listening, sender_windows, bus, frames, benign, ticks, frameRec,
                   busIo, reseed, physCall, listenLoop, brakeThreads>>

SpecCodec == InitCodec /\ [][NextCodec]_vars

\* the IPS policy engine alone, driven through its public methods as time passes
InitPolicy == InitTrustEngine /\ InitClock /\ InitIps /\ InitVerifier /\ InitSignerIdle /\ InitListener

NextPolicy ==
    /\ \/ (\E step \in IpsTickSteps : Tick(step)) /\ UNCHANGED ipsVars
       \/ (\E b \in BOOLEAN : SetEnabled(b)) /\ UNCHANGED now
       \/ (\E t \in IpsTrustInputs, a \in IpsAnomalyInputs, k \in BOOLEAN : UpdatePolicy(t, a, k))
              /\ UNCHANGED now
       \/ (\E r \in IpsSpeedInputs, c \in IpsSpeedInputs : SanitizeSpeedCall(r, c))
              /\ UNCHANGED now
       \/ (\E r \in IpsSteeringInputs : SanitizeSteeringCall(r)) /\ UNCHANGED now
    /\ UNCHANGED <<sanCall, trustVars, verifierVars, signerVars, listenerVars>>

SpecPolicy == InitPolicy /\ [][NextPolicy]_vars

\* the same engine, with its sanitize calls observed
NextSanitize ==
    /\ \/ (\E step \in IpsTickSteps : Tick(step)) /\ UNCHANGED ipsVars
       \/ (\E b \in BOOLEAN : SetEnabled(b)) /\ sanCall' = NoSanCall /\ UNCHANGED now
       \/ (\E t \in SanTrustInputs : UpdatePolicy(t, 0, FALSE))
              /\ sanCall' = NoSanCall /\ UNCHANGED now
       \/ (\E r \in SanRequestedSpeeds, c \in SanCurrentSpeeds :
               SanitizeSpeedCall(r, c) /\ sanCall' = SpeedCall(r, c)) /\ UNCHANGED now
       \/ (\E r \in SanSteeringInputs : SanitizeSteeringCall(r) /\ sanCall' = SteeringCall(r))
              /\ UNCHANGED now
    /\ UNCHANGED <<trustVars, verifierVars, signerVars, listenerVars>>

SpecSanitize == InitPolicy /\ [][NextSanitize]_vars

\* the listener with its producers
InitListen ==
    /\ now = NowStart
    /\ Is(FreshWorld)
    /\ frames = 0
    /\ benign = 0
    /\ ticks = 0
    /\ frameRec = NoFrame
    /\ call = NoCall
    /\ lastAccepted = [d \in KeyedDevices |-> 0]
    /\ marked = NoEnvelope
    /\ replay = NoReplay
    /\ outbox = [d \in SignerDevices |-> <<>>]
    /\ signed = [d \in SignerDevices |-> 0]
    /\ foreign = [d \in SignerDevices |-> FALSE]
    /\ delivery = NoDelivery
    /\ sanCall = NoSanCall
    /\ codec = NoCodec
    /\ trustCall = NoTrustCall
    /\ busIo = NoBusIo
    /\ reseed = NoReseed
    /\ physCall = NoPhysCall
    /\ listenLoop = NoLoop
    /\ brakeThreads = <<>>

ghosts == <<call, lastAccepted, marked, replay, outbox, signed, foreign, delivery, sanCall,
            codec, trustCall, busIo, reseed, physCall>>
observers == <<ghosts, listenLoop, brakeThreads>>

NextListen ==
    \/ (\E step \in ListenTickSteps : ListenTick(step))
           /\ UNCHANGED <<trustVars, verifierVars, signerVars, ipsVars, listenerOwn, bus,
                          frames, benign, frameRec>>
    \/ Benign /\ UNCHANGED <<frames, ticks, observers>>
    \/ (\E s \in ProducerSends : Send(s[1], s[2], s[3]))
           /\ UNCHANGED <<now, benign, ticks, frameRec, observers>>
    \/ (\E f \in InjectFrames : Inject(f))
           /\ UNCHANGED <<now, trustVars, verifierVars, signerVars, ipsVars, listenerOwn,
                          benign, ticks, frameRec>>
    \/ (\E c \in ColInputs : Receive(c))
           /\ UNCHANGED <<now, frames, benign, ticks, observers>>

SpecListen == InitListen /\ [][NextListen]_vars

\* the listener fed frame after frame by the producers, with an injected frame at most
\* among the first ones
NextDrive ==
    \/ Benign /\ UNCHANGED <<frames, ticks, observers>>
    \/ (\E s \in ProducerSends, c \in ColInputs : Turn(s[1], s[2], s[3], c))
           /\ UNCHANGED <<benign, ticks, observers>>
    \/ (\E f \in InjectFrames : Inject(f))
           /\ UNCHANGED <<now, trustVars, verifierVars, signerVars, ipsVars, listenerOwn,
                          benign, ticks, frameRec>>
    \/ (\E c \in ColInputs : Receive(c))
           /\ UNCHANGED <<now, frames, benign, ticks, observers>>

SpecDrive == InitListen /\ [][NextDrive]_vars

\* the listener with collaborators whose calls may fail
NextFaults ==
    \/ (\E step \in ListenTickSteps : ListenTick(step))
           /\ UNCHANGED <<trustVars, verifierVars, signerVars, ipsVars, listenerOwn, bus,
                          frames, benign, frameRec>>
    \/ Benign /\ UNCHANGED <<frames, ticks, observers>>
    \/ (\E s \in ProducerSends : Send(s[1], s[2], s[3]))
           /\ UNCHANGED <<now, benign, ticks, frameRec, observers>>
    \/ (\E c \in FaultCols : Receive(c))
           /\ UNCHANGED <<now, frames, benign, ticks, observers>>

SpecFaults == InitListen /\ [][NextFaults]_vars

\* the listener on a bus that also carries frames of an id it has no decoding for (0x7ff),
\* put there with an envelope by a producer or without one by another node
ForeignSends == {<<"vehicleA-speed-ecu", CAN_SPEED, 12000>>,
                 <<"vehicleA-steering-ecu", CAN_STEERING, 0>>,
                 <<"vehicleA-speed-ecu", 2047, 12000>>}
ForeignFrames == {[arbitration_id |-> 2047, data |-> EncodeValue(12000)]}

NextForeign ==
    \/ Benign /\ UNCHANGED <<frames, ticks, observers>>
    \/ (\E s \in ForeignSends : Send(s[1], s[2], s[3]))
           /\ UNCHANGED <<now, benign, ticks, frameRec, observers>>
    \/ (\E f \in ForeignFrames : Inject(f))
           /\ UNCHANGED <<now, trustVars, verifierVars, signerVars, ipsVars, listenerOwn,
                          benign, ticks, frameRec>>
    \/ (\E c \in ColInputs : Receive(c))
           /\ UNCHANGED <<now, frames, benign, ticks, observers>>

SpecForeign == InitListen /\ [][NextForeign]_vars

\* ---- the vehicle engine with its continuous_brake threads (src/vehicle_state.py)
\* the most threads the model lets _start_continuous_braking start
MaxBrakeThreads == 2
\* the most calls of apply_brake and update_speed
MaxBrakeCalls == 4
BrakeInputs == {0, 5000}
BrakeSpeedInputs == {3000}

\* the threads inside the while loop of continuous_brake
InLoop == {i \in DOMAIN brakeThreads : brakeThreads[i] \in {"test", "sleep"}}

\* speed after one cycle: max(0, speed - brake_pressure * 0.5 * 0.1)
Decelerated(v) == [v EXCEPT !.speed = Max(0, @ - (v.brake_pressure * 5) \div 100)]

\* the vehicle takes the value v2, nothing else of the listener moves
VehicleBecomes(v2) == Becomes([Current EXCEPT !.vehicle = v2])

\* apply_brake(brake_pressure); _start_continuous_braking starts a thread when it sets
\* the flag
ApplyBrakeCall(brake_pressure) ==
    /\ frames < MaxBrakeCalls
    /\ (brake_pressure > 0 /\ ~vehicle.brake_active) => Len(brakeThreads) < MaxBrakeThreads
    /\ VehicleBecomes(ApplyBrake(vehicle, brake_pressure))
    /\ brakeThreads' = IF brake_pressure > 0 /\ ~vehicle.brake_active
                       THEN Append(brakeThreads, "test") ELSE brakeThreads
    /\ frames' = frames + 1

\* update_speed(new_speed)
UpdateSpeedCall(new_speed) ==
    /\ frames < MaxBrakeCalls
    /\ VehicleBecomes(UpdateSpeed(vehicle, new_speed))
    /\ frames' = frames + 1
    /\ UNCHANGED brakeThreads

\* while self._brake_active and self.state.brake_pressure > 0: one cycle, or out of the loop
BrakeCycle(i) ==
    /\ brakeThreads[i] = "test"
    /\ IF vehicle.brake_active /\ vehicle.brake_pressure > 0
       THEN VehicleBecomes(Decelerated(vehicle)) /\ brakeThreads' = [brakeThreads EXCEPT ![i] = "sleep"]
       ELSE VehicleBecomes(vehicle) /\ brakeThreads' = [brakeThreads EXCEPT ![i] = "exit"]
    /\ UNCHANGED frames

\* time.sleep(0.1) is over
BrakeWakes(i) ==
    /\ brakeThreads[i] = "sleep"
    /\ VehicleBecomes(vehicle)
    /\ brakeThreads' = [brakeThreads EXCEPT ![i] = "test"]
    /\ UNCHANGED frames

\* after the loop: self._brake_active = False, and the thread ends
BrakeExit(i) ==
    /\ brakeThreads[i] = "exit"
    /\ VehicleBecomes([vehicle EXCEPT !.brake_active = FALSE])
    /\ brakeThreads' = [brakeThreads EXCEPT ![i] = "done"]
    /\ UNCHANGED frames

NextBrake ==
    /\ \/ \E p \in BrakeInputs : ApplyBrakeCall(p)
       \/ \E new_speed \in BrakeSpeedInputs : UpdateSpeedCall(new_speed)
       \/ \E i \in DOMAIN brakeThreads : BrakeCycle(i)
       \/ \E i \in DOMAIN brakeThreads : BrakeWakes(i)
       \/ \E i \in DOMAIN brakeThreads : BrakeExit(i)
    /\ UNCHANGED <<now, frameRec, benign, ticks, ghosts, listenLoop>>

SpecBrake == InitListen /\ [][NextBrake]_vars

\* ---- _listen_loop as a thread of its own, and stop() called from another one
\* self.bus.recv(timeout=1.0), in ms
RECV_TIMEOUT == 1000
\* time.sleep(0.01) between two looks at MESSAGE_FILE, in ms
RECV_POLL == 10
\* how long after the start of the listener stop() may still be called
MaxIdle == 1250
\* how many sleeps of recv the model takes in one step
SleepsTaken == {25}

\* a recv that waits for a frame however long it takes
RecvNeverExpires(start, t) == FALSE

\* recv leaves its loop: not (time.time() - start < timeout)
RecvExpired(start, t) == ~(t - start < RECV_TIMEOUT)

\* the answers of the collaborators: nothing unusual, or the analytics store failing
StopCols == {BaselineCol, [BaselineCol EXCEPT !.fails = "update_trust_pattern"]}
StopSends == {<<"vehicleA-speed-ecu", CAN_SPEED, 3000>>}
\* the most frames the producer sends
MaxStopFrames == 2

\* while self.running: the thread enters recv, or leaves the loop and ends
LoopCheck ==
    /\ listenLoop.pc = "check"
    /\ listenLoop' = IF listenLoop.running
                     THEN [listenLoop EXCEPT !.pc = "recv", !.start = now]
                     ELSE [listenLoop EXCEPT !.pc = "done"]

\* recv finds no frame in MESSAGE_FILE and sleeps, k times in a row: it has not expired
\* before the last of these sleeps, and no frame arrives during them
RecvSleeps(k) ==
    /\ listenLoop.pc = "recv"
    /\ ~RecvExpired(listenLoop.start, now + (k - 1) * RECV_POLL)
    /\ bus = <<>>
    /\ listenLoop.stop = "no" => now + k * RECV_POLL <= NowStart + MaxIdle
    /\ now + k * RECV_POLL <= NowStart + MaxIdle + 2 * RECV_TIMEOUT
    /\ now' = now + k * RECV_POLL
    /\ UNCHANGED listenLoop

\* recv gives up and returns None; the loop prints and goes round
RecvTimeout ==
    /\ listenLoop.pc = "recv"
    /\ RecvExpired(listenLoop.start, now)
    /\ listenLoop' = [listenLoop EXCEPT !.pc = "check"]

\* recv takes the oldest frame out of MESSAGE_FILE and returns it; the loop counts it
RecvFrame ==
    /\ listenLoop.pc = "recv"
    /\ ~RecvExpired(listenLoop.start, now)
    /\ bus # <<>>
    /\ Becomes([Current EXCEPT !.bus = Tail(@), !.message_count = @ + 1])
    /\ listenLoop' = [listenLoop EXCEPT !.pc = "process", !.message = Head(bus)]

\* self._process_message(message); an exception that leaves it ends the thread
LoopTakes(r) ==
    /\ Takes(r)
    /\ listenLoop' = [listenLoop EXCEPT !.pc = IF r.report.raised THEN "done" ELSE "check"]

ProcessFrame(col) ==
    /\ listenLoop.pc = "process"
    /\ LoopTakes(ProcessMessage(Current, listenLoop.message, now, col))

\* stop(): self.running = False, then the caller waits in join()
StopCalled ==
    /\ listenLoop.stop = "no"
    /\ listenLoop' = [listenLoop EXCEPT !.running = FALSE, !.stop = "joining", !.stopAt = now]

\* join() returns when the thread has ended; bus.shutdown() and stop() returns
StopReturns ==
    /\ listenLoop.stop = "joining"
    /\ listenLoop.pc = "done"
    /\ listenLoop' = [listenLoop EXCEPT !.stop = "returned"]

\* the producer signs and sends a frame
StopSend(d, can_id, target) ==
    /\ frames < MaxStopFrames
    /\ Becomes(SendSigned(Current, d, can_id, target, now))
    /\ frames' = frames + 1

\* the steps of the listener thread outside _process_message
ThreadStep ==
    /\ \/ (LoopCheck \/ RecvTimeout) /\ Becomes(Current) /\ UNCHANGED now
       \/ (\E k \in SleepsTaken : RecvSleeps(k)) /\ Becomes(Current)
       \/ RecvFrame /\ UNCHANGED now
    /\ UNCHANGED <<frames, frameRec, benign, ticks, ghosts, brakeThreads>>

CallerStep ==
    /\ StopCalled \/ StopReturns
    /\ Becomes(Current)
    /\ UNCHANGED <<now, frames, frameRec, benign, ticks, ghosts, brakeThreads>>

NextStop ==
    \/ ThreadStep
    \/ (\E c \in StopCols : ProcessFrame(c))
           /\ UNCHANGED <<now, frames, benign, ticks, ghosts, brakeThreads>>
    \/ CallerStep
    \/ (\E s \in StopSends : StopSend(s[1], s[2], s[3]))
           /\ UNCHANGED <<now, frameRec, listenLoop, benign, ticks, ghosts, brakeThreads>>

\* the scheduler lets the listener thread and the caller of stop() run, and
\* _process_message comes to its end: weak fairness of the step ProcessFrame, which is
\* enabled exactly while the thread is inside _process_message
FairStop ==
    /\ InitListen /\ [][NextStop]_vars
    /\ WF_vars(ThreadStep) /\ WF_vars(CallerStep)
    /\ []<>(listenLoop.pc # "process")

(***************************************************************************)
(* C1: after any sequence of update_trust calls with inputs in [0,1],      *)
(* set_ml_enabled toggles and reset_trust calls, the trust score is in     *)
(* [0, 1].                                                                 *)
(***************************************************************************)
TrustInUnitInterval == trust_score >= 0 /\ trust_score <= ONE

\* an update whose unclamped result fell below 0 and was clamped to 0
TrustClampedAtFloor == trustRaw < 0 /\ trust_score = 0

(***************************************************************************)
(* C2: once the verifier has accepted an envelope, every later             *)
(* verify_message call on the identical envelope is rejected, whatever     *)
(* other envelopes are verified in between.  (The statement as claimed.)   *)
(***************************************************************************)
ReplayAlwaysRejected == replay.seen => ~replay.ok

\* C2 as amended: a later call on an accepted envelope is rejected whenever
\* the device's recorded last sequence is then at or above the envelope's
\* sequence by at most 100 (as it is at an immediate second attempt).
ReplayRejectedWhileCovered == (replay.seen /\ replay.covered) => ~replay.ok

\* a second attempt on an accepted envelope, turned down
ReplayTurnedDown == replay.seen /\ replay.covered /\ ~replay.ok

(***************************************************************************)
(* C3: for each device the verifier rejects every envelope whose sequence  *)
(* is at most the sequence of the last envelope it accepted for that       *)
(* device and lower than it by at most 100.                                *)
(***************************************************************************)
NoAcceptAtOrBelowLastAccepted == call.belowAccepted => ~call.ok

(***************************************************************************)
(* C4: an envelope obtained from a signed one by changing its payload,     *)
(* timestamp, sequence or device_id while keeping the signature is never   *)
(* accepted.                                                               *)
(***************************************************************************)
TamperedNeverAccepted == call.kind = "tampered" => ~call.ok

\* a tampered envelope that passed every earlier test and failed on its signature
TamperedFailsSignature == call.kind = "tampered" /\ call.reason = "Invalid HMAC signature"

(***************************************************************************)
(* C6: verify_message rejects every envelope whose timestamp differs from  *)
(* the verifier's clock by more than 5000 ms, whatever its sequence and    *)
(* signature.                                                              *)
(***************************************************************************)
StaleNeverAccepted == call.stale => ~call.ok

\* a genuinely signed envelope turned down for its timestamp alone
StaleGenuineTurnedDown ==
    call.kind = "genuine" /\ call.stale /\ ~call.ok /\ call.reason = "Message too old"

(***************************************************************************)
(* C5: every envelope sign_message returns for a device with a configured  *)
(* key is accepted by a verifier that receives that signer's envelopes     *)
(* once each, in signing order, within 5000 ms of signing.                 *)
(***************************************************************************)
SignedInOrderAccepted == (delivery.seen /\ delivery.firstHand /\ delivery.inTime) => delivery.ok

(***************************************************************************)
(* C9: with IPS enabled, the mode changes from a non-OFF mode to OFF only  *)
(* at an update_policy call with trust >= 0.8 made at least 5 seconds      *)
(* after the first call of an unbroken run of calls with trust >= 0.8;     *)
(* any call with trust < 0.8 resets the recovery timer to 0.               *)
(***************************************************************************)
RecoveryNeedsFiveSeconds ==
    (ipsCall.seen /\ ipsCall.enabled) =>
        /\ (ipsCall.prevMode # "OFF" /\ ipsCall.mode = "OFF") =>
               (ipsCall.trust >= 800 /\ ipsCall.ranFive)
        /\ ipsCall.trust < 800 => ipsCall.timer = 0

\* a call that took the engine out of a restricting mode
RecoveredToOff ==
    ipsCall.seen /\ ipsCall.enabled /\ ipsCall.prevMode # "OFF" /\ ipsCall.mode = "OFF"

(***************************************************************************)
(* C10: with IPS enabled, after update_policy with trust < 0.8 the mode is *)
(* SOFT_LIMIT iff 0.7 <= trust < 0.8, SAFE_MODE iff 0.5 <= trust < 0.7 and *)
(* CRITICAL iff trust < 0.5, whatever the previous mode and the other      *)
(* arguments.                                                              *)
(***************************************************************************)
ModeFollowsTrustBand ==
    (ipsCall.seen /\ ipsCall.enabled /\ ipsCall.trust < 800) =>
        /\ ipsCall.mode = "SOFT_LIMIT" <=> (700 <= ipsCall.trust /\ ipsCall.trust < 800)
        /\ ipsCall.mode = "SAFE_MODE" <=> (500 <= ipsCall.trust /\ ipsCall.trust < 700)
        /\ ipsCall.mode = "CRITICAL" <=> ipsCall.trust < 500

\* a call that relaxed CRITICAL to SOFT_LIMIT at trust exactly 0.7, with attack_active set
CriticalRelaxedAtBandEdge ==
    /\ ipsCall.seen /\ ipsCall.enabled /\ ipsCall.attack
    /\ ipsCall.prevMode = "CRITICAL" /\ ipsCall.trust = 700 /\ ipsCall.mode = "SOFT_LIMIT"

(***************************************************************************)
(* C7: a bus frame for which the listener finds no signed envelope is      *)
(* dropped: it is not counted as verified and causes no trust update, no   *)
(* IPS update and no vehicle-model update.                                 *)
(***************************************************************************)
UnsignedFrameDropped ==
    (frameRec.seen /\ frameRec.unsigned) =>
        /\ ~frameRec.counted
        /\ ~frameRec.trustUpdated
        /\ ~frameRec.ipsUpdated
        /\ ~frameRec.vehicleUpdated

(***************************************************************************)
(* C8: for every frame the listener processes for which the physics        *)
(* validator reports overall_valid = false, the anomaly score passed to    *)
(* the trust update is at least 0.8, in every listener state and for every *)
(* sender.                                                                 *)
(***************************************************************************)
PhysicsInvalidScoresHigh ==
    (frameRec.seen /\ frameRec.trustUpdated /\ ~frameRec.physicsValid) =>
        frameRec.anomaly >= 800

\* C8 as the code has it: the same for a frame scored with the listener trained and a
\* sender that is not the UI controller
PhysicsInvalidScoresHighOnceTrained ==
    (/\ frameRec.seen /\ frameRec.trustUpdated /\ ~frameRec.physicsValid
     /\ ~frameRec.collecting /\ ~frameRec.ui) =>
        frameRec.anomaly >= 800

\* a trained listener lifted the fused score of a physics-invalid ECU frame to 0.8
PhysicsFloorApplied ==
    /\ frameRec.seen /\ frameRec.trustUpdated /\ ~frameRec.physicsValid
    /\ ~frameRec.collecting /\ ~frameRec.ui
    /\ frameRec.fused < 800 /\ frameRec.anomaly = 800
(***************************************************************************)
(* C11: in every non-OFF mode sanitize_speed returns a value in [10, cap], *)
(* cap = 40 (SOFT_LIMIT), 35 (SAFE_MODE), 25 (CRITICAL), equal to          *)
(* max(10, min(cap, current_speed + 2)) whatever requested_speed is; in    *)
(* OFF mode it returns requested_speed.                                    *)
(***************************************************************************)
SanitizedSpeedWithinCap ==
    (sanCall.seen /\ sanCall.kind = "speed") =>
        IF sanCall.mode = "OFF" THEN sanCall.result = sanCall.requested
        ELSE LET cap == IF sanCall.mode = "SOFT_LIMIT" THEN 4000
                        ELSE IF sanCall.mode = "SAFE_MODE" THEN 3500 ELSE 2500
             IN  /\ 1000 <= sanCall.result /\ sanCall.result <= cap
                 /\ sanCall.result = Max(1000, Min(cap, sanCall.current + 200))

\* a request for 120 km/h at 120 km/h answered with 25 km/h in CRITICAL mode
SpeedRequestOverridden ==
    /\ sanCall.seen /\ sanCall.kind = "speed" /\ sanCall.mode = "CRITICAL"
    /\ sanCall.requested = 12000 /\ sanCall.current = 12000 /\ sanCall.result = 2500

(***************************************************************************)
(* C12: in every non-OFF mode the value sanitize_speed returns exceeds     *)
(* current_speed by at most 2 km/h, for every current_speed >= 0.  (The    *)
(* statement as claimed.)                                                  *)
(***************************************************************************)
SpeedRisesAtMostTwo ==
    (sanCall.seen /\ sanCall.kind = "speed" /\ sanCall.mode # "OFF" /\ sanCall.current >= 0) =>
        sanCall.result <= sanCall.current + 200

\* C12 as amended: at most 2 km/h above a current speed of 8 km/h or more, and 10 km/h
\* for a current speed below 8 km/h
SpeedRisesAtMostTwoAboveFloor ==
    (sanCall.seen /\ sanCall.kind = "speed" /\ sanCall.mode # "OFF" /\ sanCall.current >= 0) =>
        /\ sanCall.current >= 800 => sanCall.result <= sanCall.current + 200
        /\ sanCall.current < 800 => sanCall.result = 1000

\* a call at 8 km/h answered with 10 km/h, the full 2 km/h above
SpeedRaisedByTwo ==
    /\ sanCall.seen /\ sanCall.kind = "speed" /\ sanCall.mode # "OFF"
    /\ sanCall.current = 800 /\ sanCall.result = 1000

(***************************************************************************)
(* C13: in every non-OFF mode, of two successive sanitize_steering calls   *)
(* the second returns a steering of strictly smaller magnitude than the    *)
(* first, while that is non-zero (the decay by 0.9 per call).              *)
(***************************************************************************)
SteeringDecaysPerCall ==
    (/\ sanCall.seen /\ sanCall.kind = "steering" /\ sanCall.mode # "OFF"
     /\ sanCall.chained /\ sanCall.prevResult # 0) =>
        Abs(sanCall.result) < Abs(sanCall.prevResult)

UiFrameStillGuarded ==
    (frameRec.seen /\ frameRec.ui) =>
        /\ frameRec.trustUpdated => frameRec.anomaly = 0
        /\ frameRec.status = "REJECTED" =>
               ~(frameRec.counted \/ frameRec.trustUpdated \/ frameRec.ipsUpdated
                 \/ frameRec.vehicleUpdated)
        /\ (frameRec.vehicleUpdated /\ frameRec.signal = "speed") =>
               /\ frameRec.applied = SanitizeSpeed(frameRec.mode, frameRec.value, current_speed)
               /\ vehicle.speed = Max(0, frameRec.applied)
        /\ (frameRec.vehicleUpdated /\ frameRec.signal = "steering") =>
               /\ frameRec.mode # "OFF" =>
                      Abs(frameRec.applied) <= SteeringLimit(frameRec.mode)
               /\ frameRec.mode = "OFF" => frameRec.applied = frameRec.value
               /\ vehicle.steering_angle = Max(-4500, Min(4500, frameRec.applied))

\* the driver asked for 120 km/h while the engine was limiting, and the vehicle got less
UiSpeedRequestLimited ==
    /\ frameRec.seen /\ frameRec.ui /\ frameRec.vehicleUpdated
    /\ frameRec.signal = "speed"
    /\ frameRec.mode # "OFF"
    /\ frameRec.value = 12000
    /\ vehicle.speed < 12000

(***************************************************************************)
(* C16: when the verifier rejects a frame's envelope the listener adds 1   *)
(* to the rejected counter, appends one REJECTED entry to the log, and     *)
(* leaves trust, the IPS state, the feature windows, the training buffer,  *)
(* the current speed/steering/brake and the vehicle model as they were.    *)
(***************************************************************************)
RejectOnlyCountsAndLogs ==
    [][(message_count' = message_count + 1 /\ frameRec'.status = "REJECTED") =>
          /\ rejected_messages' = rejected_messages + 1
          /\ verified_messages' = verified_messages
          /\ IF Len(message_log) < 50
             THEN SubSeq(message_log', 1, Len(message_log') - 1) = message_log
             ELSE SubSeq(message_log', 1, Len(message_log') - 1) = Tail(message_log)
          /\ message_log'[Len(message_log')].status = "REJECTED"
          /\ UNCHANGED <<trust_score, ips_enabled, ips_mode, last_safe_speed,
                         last_safe_steering, recovery_timer, fe_history, training_mode,
                         training_samples, training_features, current_speed,
                         current_steering, current_brake, vehicle>>]_vars

\* a trained listener has just dropped a frame whose envelope the verifier rejected
TrainedListenerRejected ==
    /\ frameRec.seen /\ frameRec.status = "REJECTED"
    /\ rejected_messages = 1
    /\ is_trained
    /\ Len(message_log) > 1
    /\ message_log[Len(message_log)].status = "REJECTED"

(***************************************************************************)
(* C17: whatever the sign_message calls and the crashes and restarts of    *)
(* the signer process, a crash inside the write of the sequence file       *)
(* included, no two envelopes issued for one device carry the same         *)
(* sequence number.                                                        *)
(***************************************************************************)
NoSequenceIssuedTwice ==
    \A d \in SignerDevices : \A i, j \in DOMAIN outbox[d] :
        i # j => outbox[d][i].sequence # outbox[d][j].sequence

(***************************************************************************)
(* C18: for every steering angle in [-45, 45], speed in [0, 6553.5] and    *)
(* brake in [0, 100], in steps of 0.01, what the listener decodes from the *)
(* payload the producer encodes differs from the value by at most 0.05.    *)
(***************************************************************************)
RoundTripWithinTolerance ==
    codec.stage = "decoded" => Abs(codec.decoded - codec.value) <= 5

(***************************************************************************)
(* C19: when a collaborator call made while a frame is processed fails     *)
(* (analytics security-event log, storage alert log, trust-pattern update, *)
(* trust-update log, V2V publish, attack-event log), the failure does not  *)
(* propagate: the listener loop keeps running and takes the next frames.   *)
(***************************************************************************)
CollaboratorFailureContained ==
    (frameRec.seen /\ frameRec.failed # "") => (listening /\ ~frameRec.raised)

(***************************************************************************)
(* C20: from any mode other than OFF, when every later update_policy call  *)
(* has trust >= 0.8 and calls keep coming as time advances, the mode stays *)
(* other than OFF for at least 5 seconds after the first such call, and    *)
(* eventually becomes OFF.                                                 *)
(***************************************************************************)
StaysLimitedThenRecovers ==
    /\ [](ips_mode = "OFF" => (runStart # 0 /\ now - runStart >= 5000))
    /\ <>(ips_mode = "OFF")

\* the engine went back to OFF at a call more than 5 s after the first one of the run
RecoveredAfterQuietCalls ==
    /\ ips_mode = "OFF"
    /\ ipsCall.seen /\ ipsCall.prevMode # "OFF" /\ ipsCall.trust >= 800
    /\ now - runStart > 5000

(***************************************************************************)
(* C21: an update_trust call with auth = 1, temporal = 1 and an effective  *)
(* anomaly below 0.1 leaves the trust score not lower than it found it,    *)
(* and strictly higher unless it was 1.0 already.                          *)
(***************************************************************************)
QuietCallRaisesTrust ==
    (/\ trustCall.seen
     /\ trustCall.auth = ONE /\ trustCall.temporal = ONE
     /\ EffectiveAnomaly(trustCall.ml, trustCall.anomaly) < 100)
    => /\ trust_score >= trustCall.before
       /\ trust_score > trustCall.before \/ trustCall.before = MAX_TRUST

\* a call with a small anomaly score, ML on, raised a trust score that was below 1.0
TrustRoseOnSmallAnomaly ==
    /\ trustCall.seen /\ trustCall.ml
    /\ trustCall.auth = ONE /\ trustCall.temporal = ONE
    /\ trustCall.anomaly = 99
    /\ trustCall.before < MAX_TRUST
    /\ trust_score > trustCall.before

(***************************************************************************)
(* C22: the listener goes from collecting to trained at most once: once    *)
(* training has succeeded it never re-enters training mode, never calls    *)
(* train again and never modifies the training buffer; before that the     *)
(* buffer never holds more than 25 samples.                                *)
(***************************************************************************)
TrainsOnceAndKeepsBuffer ==
    [][/\ ~training_mode =>
              /\ ~training_mode' /\ is_trained'
              /\ training_features' = training_features
              /\ training_samples' = training_samples
              /\ frameRec' # frameRec => ~frameRec'.trainCalled
       /\ Len(training_features') <= MAX_TRAINING_SAMPLES
       /\ training_samples' <= MAX_TRAINING_SAMPLES]_vars

\* the trained listener has processed a frame after the one that completed the training
TrainedListenerTookFrame ==
    /\ ~training_mode /\ is_trained
    /\ Len(training_features) = MAX_TRAINING_SAMPLES
    /\ frameRec.seen /\ frameRec.decoded /\ ~frameRec.trainCalled
    /\ message_count > MAX_TRAINING_SAMPLES

(***************************************************************************)
(* C23: after any interleaving of send and recv by the producer and the    *)
(* listener, the exchange holds at most the 10 most recently sent frames   *)
(* not yet delivered, recv returns the undelivered frames in send order,   *)
(* and no frame is returned by recv twice.                                 *)
(***************************************************************************)
ExchangeIsBoundedFifo ==
    /\ Len(bus) <= 10
    /\ \A i, j \in DOMAIN busIo.returned :
           i < j => RawValue(busIo.returned[i].data) < RawValue(busIo.returned[j].data)
    /\ \A i \in DOMAIN bus : \A j \in DOMAIN busIo.returned :
           bus[i] # busIo.returned[j]

(***************************************************************************)
(* C24: verify_message changes the verifier's state (the last sequence and *)
(* the timestamp history of a device) only when it accepts the envelope; a *)
(* rejection for whatever reason, a bad signature included, leaves the     *)
(* state as it was.                                                        *)
(***************************************************************************)
RejectionLeavesVerifierState == (call.kind # "none" /\ ~call.ok) => call.stateKept

(***************************************************************************)
(* C25: when a producer restarts with its sequence file missing while the  *)
(* verifier still holds the last sequence it accepted from the device, the *)
(* envelopes the producer signs after the restart are accepted: the        *)
(* restart is recognised and the device's counter is re-anchored.          *)
(***************************************************************************)
EnvelopeAfterRestartAccepted == reseed.seen => (reseed.ok /\ reseed.anchored)

\* amended: the first envelope after such a restart is accepted, and the counter
\* re-anchored at its sequence, when that sequence is lower than the one the verifier
\* holds by more than 100 (and the envelope arrives within 5000 ms with every field
\* set); when it is at or below the held sequence by at most 100 it is rejected and
\* the held sequence stays
RestartRecognisedBeyondGap ==
    /\ (reseed.seen /\ reseed.farBelow /\ reseed.inTime /\ reseed.present)
           => (reseed.ok /\ reseed.anchored)
    /\ (reseed.seen /\ ~reseed.farBelow) => (~reseed.ok /\ reseed.kept)

RestartReanchored == reseed.seen /\ reseed.farBelow /\ reseed.ok /\ reseed.anchored

(***************************************************************************)
(* C26: while ml_enabled is false the trust score update_trust leaves does *)
(* not depend on the anomaly_score argument: the same engine given the     *)
(* same auth and temporal inputs and any other anomaly score ends with the *)
(* same trust; and with auth = 1 and temporal = 1 trust never decreases.   *)
(***************************************************************************)
AnomalyIgnoredWhileMlOff ==
    (trustCall.seen /\ ~trustCall.ml)
    => /\ \A other \in CallAnomalies :
              trust_score = TrustAfter(trustCall.before, trustCall.ml, other,
                                       trustCall.auth, trustCall.temporal)
       /\ (trustCall.auth = ONE /\ trustCall.temporal = ONE)
              => trust_score >= trustCall.before

\* with ML off, a call with anomaly score 1.0 raised a trust score that was below 1.0
TrustRoseOnFullAnomalyMlOff ==
    /\ trustCall.seen /\ ~trustCall.ml
    /\ trustCall.anomaly = 1000
    /\ trustCall.auth = ONE /\ trustCall.temporal = ONE
    /\ trust_score > trustCall.before

(***************************************************************************)
(* C27: the temporal input the listener passes to the trust update for a   *)
(* frame is the temporal score of that frame, 1 minus the temporal anomaly *)
(* score the temporal extractor reported, so that a temporal anomaly       *)
(* lowers trust through the gamma term.                                    *)
(***************************************************************************)
TrustGetsTemporalScore ==
    (frameRec.seen /\ frameRec.trustUpdated) =>
        frameRec.trustTemporal = ONE - frameRec.temporalAnomaly

(***************************************************************************)
(* C28: while the IPS mode is not OFF, the speed the listener forwards to  *)
(* the vehicle model for a speed frame does not depend on the speed value  *)
(* the frame carries: two runs that differ only in that frame's speed      *)
(* value forward the same speed.                                           *)
(***************************************************************************)
\* the outcomes a and b of one turn, both limited, forward the same speed
SameSpeedForwarded(a, b) ==
    (/\ a.report.vehicleUpdated /\ a.report.mode # "OFF"
     /\ b.report.vehicleUpdated /\ b.report.mode # "OFF")
    => a.report.applied = b.report.applied

\* the listener takes the speed frame of s, and in its place the one of o
TurnAndTwin(s, o, c) ==
    (/\ s[2] = CAN_SPEED /\ o[2] = CAN_SPEED /\ s[1] = o[1]
     /\ listening /\ Settled /\ bus = <<>> /\ frames' = frames + 1
     /\ frameRec' = ListenTurn(SendSigned(Current, s[1], s[2], s[3], now + 100), now + 100, c).report)
    => SameSpeedForwarded(
           ListenTurn(SendSigned(Current, s[1], s[2], s[3], now + 100), now + 100, c),
           ListenTurn(SendSigned(Current, o[1], o[2], o[3], now + 100), now + 100, c))

ForwardedSpeedIgnoresFrameValue ==
    [][\A s \in ProducerSends, o \in ProducerSends, c \in ColInputs : TurnAndTwin(s, o, c)]_vars

(***************************************************************************)
(* C29: the vector the anomaly detector builds from what the listener      *)
(* passes it, in training and in detection, is the 9-entry concatenation   *)
(* of (frequency, delta, jitter) for steering, speed and brake in that     *)
(* order, holding each signal's extracted features in its slot and zeros   *)
(* only for signals that have no features.                                 *)
(***************************************************************************)
\* the features of sample are in one of the three slots of its vector
SampleInItsSlot(sample) ==
    \E k \in 1..3 :
        SubSeq(PrepareFeatures(sample), 3 * k - 2, 3 * k)
            = <<sample.frequency, sample.delta, sample.jitter>>

DetectorVectorHoldsFeatures ==
    /\ \A i \in DOMAIN training_features : SampleInItsSlot(training_features[i])
    /\ (frameRec.seen /\ frameRec.detected) =>
           /\ Len(frameRec.vector) = 9
           /\ \E k \in 1..3 : SubSeq(frameRec.vector, 3 * k - 2, 3 * k) = frameRec.features

(***************************************************************************)
(* C30: after the listener has processed a frame of signal kind k at time  *)
(* t, every (timestamp, value) entry of k's feature ring has a timestamp   *)
(* within the window of 1 s before t: older entries have been evicted.     *)
(***************************************************************************)
FeatureRingWithinWindow ==
    (frameRec.seen /\ frameRec.decoded) =>
        \A i \in DOMAIN fe_history[frameRec.kind] :
            /\ fe_history[frameRec.kind][i][1] <= frameRec.t
            /\ frameRec.t - fe_history[frameRec.kind][i][1] <= 1000

(***************************************************************************)
(* C31: for every accepted, decodable frame the listener adds the sample   *)
(* (timestamp, speed, steering, brake) to the sender's window of the       *)
(* contextual validator before it computes the contextual score, so that   *)
(* the window holds the sender's most recent samples, at most 20.          *)
(***************************************************************************)
SenderWindowFed ==
    (frameRec.seen /\ frameRec.decoded) =>
        /\ frameRec.sender \in DOMAIN sender_windows
        /\ Len(sender_windows[frameRec.sender]) \in 1..CONTEXT_WINDOW
        /\ sender_windows[frameRec.sender][Len(sender_windows[frameRec.sender])]
               = [timestamp |-> frameRec.t, speed |-> current_speed,
                  steering |-> current_steering, brake |-> current_brake]

(***************************************************************************)
(* C32: across successive get_physics_score calls with time advancing      *)
(* between them, a steering change at a rate above 30 degrees/s lowers the *)
(* steering sub-score below 1, and a rate of 45 degrees/s or more makes    *)
(* steering_valid and overall_valid false.                                 *)
(***************************************************************************)
FastSteeringFlagged ==
    (physCall.calls >= 2 /\ physCall.step > 0) =>
        /\ Abs(physCall.steering - physCall.prevSteering) * 10 > 30 * physCall.step
               => physCall.steering_score < ONE
        /\ Abs(physCall.steering - physCall.prevSteering) * 10 >= 45 * physCall.step
               => (~physCall.steering_valid /\ ~physCall.overall_valid)

(***************************************************************************)
(* C33: in get_physics_score, when the speed exceeds the speed given to    *)
(* the previous call by more than 1 km/h while brake > 10 %, the           *)
(* correlation check records its violation of weight 0.7, so that          *)
(* correlation_valid and overall_valid are false.                          *)
(***************************************************************************)
SpeedUpWhileBrakingFlagged ==
    (/\ physCall.calls >= 2
     /\ physCall.speed > physCall.prevSpeed + 100
     /\ physCall.brake > 1000)
    => (~physCall.correlation_valid /\ ~physCall.overall_valid)

(***************************************************************************)
(* C34: while the listener is in training mode every processed frame gives *)
(* the trust update the anomaly score 0; the listener that started with    *)
(* trust 1.0 and the IPS off therefore keeps trust >= 0.95 and the IPS     *)
(* mode OFF for as long as it is training.                                 *)
(***************************************************************************)
TrainingKeepsTrust ==
    /\ (frameRec.decoded /\ frameRec.collecting) => frameRec.anomaly = 0
    /\ training_mode => (trust_score >= 950 /\ ips_mode = "OFF")

\* a frame the layers score above the alert threshold went through the trust update and
\* the IPS policy of a listener that is training
AlarmingFrameWhileTraining ==
    /\ training_mode
    /\ frameRec.decoded /\ frameRec.collecting /\ ~frameRec.ui
    /\ frameRec.fused > 300
    /\ frameRec.trustUpdated /\ frameRec.ipsUpdated

(***************************************************************************)
(* C35: a frame whose id is none of 0x120, 0x130, 0x140 is ignored: the    *)
(* turn of the listener that processes it leaves the trust score, the IPS  *)
(* state, the feature windows, the physics history, the training buffer,   *)
(* the current speed, steering and brake and the vehicle model unchanged.  *)
(***************************************************************************)
UnknownFrameIgnored ==
    [][(/\ bus # <<>>
        /\ message_count' = message_count + 1
        /\ Head(bus).arbitration_id \notin {CAN_STEERING, CAN_SPEED, CAN_BRAKE})
       => UNCHANGED <<trust_score, trustRaw, ml_enabled,
                      ips_enabled, ips_mode, last_safe_speed, last_safe_steering,
                      recovery_timer,
                      fe_history, physics, sender_windows,
                      training_mode, training_samples, training_features, is_trained,
                      current_speed, current_steering, current_brake, vehicle>>]_vars

\* a listener with traffic behind it has taken a frame of another id: counted, not decoded
UnknownFrameTaken ==
    /\ frameRec.seen /\ frameRec.counted /\ ~frameRec.decoded
    /\ fe_history["speed"] # <<>>
    /\ vehicle.speed > 0

HandedEnvelopes ==
    UNION {{Genuine(f), Forged(f)} \cup TamperedFrom(f) : f \in SignedFields}

LeavesOthersAlone(m, r) ==
    \A b \in KeyedDevices \ {m.device_id} :
        /\ r.last_sequences[b] = last_sequences[b]
        /\ r.message_history[b] = message_history[b]

SameAnswerWithout(m, r, a) ==
    VerifyMessage([last_sequences EXCEPT ![a] = 0], [message_history EXCEPT ![a] = <<>>],
                  now, m).ok = r.ok

DevicesKeptApart ==
    \A m \in HandedEnvelopes :
        /\ LeavesOthersAlone(m, VerifyMessage(last_sequences, message_history, now, m))
        /\ \A a \in EnvelopeDevices \ {m.device_id} :
               SameAnswerWithout(m, VerifyMessage(last_sequences, message_history, now, m), a)

\* the verifier has accepted envelopes of two devices, with different sequence numbers
TwoDevicesAccepted ==
    /\ call.ok
    /\ last_sequences["vehicleA-v2v"] > 0
    /\ last_sequences["vehicleB-v2v"] > last_sequences["vehicleA-v2v"]
    /\ message_history["vehicleA-v2v"] # <<>>
    /\ message_history["vehicleB-v2v"] # <<>>

(***************************************************************************)
(* C38: when producers sign and send their frames one after another, each  *)
(* with a fresh envelope, then under every interleaving of producers and   *)
(* listener each frame the listener takes is verified against the envelope *)
(* signed for it, the one carrying the frame's data, and no such frame is  *)
(* rejected as a replay.                                                   *)
(***************************************************************************)
MeetsItsEnvelope(frame, found) ==
    found # NoEnvelope /\ FromHex(found.payload) = frame.data

FrameMeetsItsEnvelope ==
    [][(bus # <<>> /\ message_count' = message_count + 1) =>
           /\ MeetsItsEnvelope(Head(bus), LatestFor(secure_messages, Head(bus).arbitration_id))
           /\ frameRec'.status = "REJECTED" =>
                  message_log'[Len(message_log')].reason # "Sequence replay"]_vars

(***************************************************************************)
(* C39: set_enabled(False) puts the IPS in mode OFF and clears the         *)
(* recovery timer at once, from any mode; while the IPS is disabled,       *)
(* update_policy returns mode OFF and changes nothing of the IPS state,    *)
(* and sanitize_speed and sanitize_steering return the requested value;    *)
(* set_enabled(True) leaves the mode OFF, and the mode leaves OFF only in  *)
(* an update_policy call with trust < 0.8.                                 *)
(***************************************************************************)
DisabledIpsStandsAside ==
    /\ [](~ips_enabled => (ips_mode = "OFF" /\ recovery_timer = 0))
    /\ []((ipsCall.seen /\ ~ipsCall.enabled) =>
             (ipsCall.prevMode = "OFF" /\ ipsCall.mode = "OFF" /\ ipsCall.timer = 0))
    /\ [][(~ips_enabled /\ ~ips_enabled') => UNCHANGED <<ips_mode, recovery_timer>>]_vars
    /\ []((sanCall.seen /\ ~ips_enabled) => sanCall.result = sanCall.requested)
    /\ [][(~ips_enabled /\ ips_enabled') => ips_mode' = "OFF"]_vars
    /\ [][(ips_mode = "OFF" /\ ips_mode' # "OFF") =>
             /\ ips_enabled /\ ips_enabled'
             /\ ipsCall'.seen /\ ipsCall'.trust < 800
             /\ ipsCall'.prevMode = "OFF" /\ ipsCall'.mode = ips_mode']_vars

\* the IPS was switched off in a mode other than OFF, and has since been asked to
\* sanitize a value it would have overridden
SanitizedWhileDisabled ==
    /\ ~ips_enabled
    /\ ipsCall.seen /\ ipsCall.enabled /\ ipsCall.mode # "OFF"
    /\ sanCall.seen /\ sanCall.kind = "speed"
    /\ sanCall.result # SanitizeSpeed(ipsCall.mode, sanCall.requested, sanCall.current)

(***************************************************************************)
(* C40: in the vehicle model, under every interleaving of apply_brake      *)
(* calls with the braking thread, at most one continuous_brake thread      *)
(* decelerates the vehicle at a time, and whenever the stored brake        *)
(* pressure is > 0 after an apply_brake call the braking flag is set, so   *)
(* that update_speed cannot raise the speed while the brake is applied.    *)
(***************************************************************************)
OneBrakeThreadHoldsTheFlag ==
    /\ (vehicle.brake_active /\ vehicle.brake_pressure > 0) => Cardinality(InLoop) <= 1
    /\ vehicle.brake_pressure > 0 => vehicle.brake_active

====
